---- MODULE Spec2Model ----
(***************************************************************************)
(* Verification model of burlo.v2's Modbus telemetry and history engine:   *)
(* the DX2W HistoryService (group pollers, anomaly filter, rolling history *)
(* store, snapshot loop, HTTP write endpoint) and the Modbus Client         *)
(* (mutex, retry, reconnect with backoff).                                  *)
(*                                                                         *)
(* The specifications of the module:                                       *)
(*   Spec          - the HistoryService (internal/dx2w), time in minutes;  *)
(*   SpecGroups    - two poll groups side by side;                         *)
(*   SpecRun       - Run from start to return;                             *)
(*   SpecSnapshot  - saving the history, restarting and loading it;        *)
(*   SpecIntervals - Run under every poll_groups configuration;            *)
(*   SpecAggregate - Mean / Median / PercentOn over a history;             *)
(*   SpecClient    - the Modbus Client (pkg/modbus), backoff in seconds;   *)
(*   SpecCodec     - WriteValue / ReadValue encoding and decoding;         *)
(*   SpecValidate  - the anomaly filter on values of every kind;           *)
(*   SpecCopies    - ListAll / LatestAll results against later appends;    *)
(*   SpecBus       - the event bus (package eventbus);                     *)
(*   SpecShutdown  - Run's shutdown with reads going through the client,   *)
(*                   under fair scheduling;                                *)
(*   SpecPump      - the pump duty-cycle controller (pumpctrl), time in    *)
(*                   1/TicksPerMinute of a minute.                         *)
(***************************************************************************)
EXTENDS Integers, Sequences, FiniteSets, TLC

VARIABLES
    \* ---- HistoryService (internal/dx2w) ----
    now,        \* wall clock, minutes
    registers,  \* s.registers: the names of the configured register catalog
    history,    \* s.history: register name -> sequence of HistoryEntry
    rlocks,     \* s.mu: number of read locks held (ListAll / LatestAll callers)
    cancelled,  \* ctx.Done() is closed
    runpc,      \* position of HistoryService.Run
    disk,       \* the file at the snapshot path: present, its JSON document,
                \* and whether it was synced before the rename
    pc,         \* per poll group: position of runGroupPoller / pollRegisters
    idx,        \* per poll group: index of the register being polled
    ets,        \* per poll group: entry.Timestamp of the entry being built
    rd,         \* per poll group: (val, err) returned by ReadValue
    apc,        \* post-write goroutine of handleAPIWrite: position
    areg,       \* post-write goroutine: req.ID
    aval,       \* post-write goroutine: the value it re-read
    http,       \* status of the last /api/write response (0: none yet)
    nwrites,    \* number of /api/write requests served
    pollGroups, \* s.modbusConfig.PollGroups: group name -> interval, seconds
    interval,   \* per poll group: the interval its poller was started with
    aggres,     \* what the last Mean / Median / PercentOn call returned
    vcall,      \* the last invalidValueErrorDetection call: name, value, error
    \* ---- Modbus Client (pkg/modbus) ----
    mu,         \* c.mu: "free" or the caller holding it
    handler,    \* c.handler: "nil", "open" (connected) or "closed"
    up,         \* the device answers on the network
    inflight,   \* callers with a Modbus transaction in flight on the session
    cpc,        \* per caller: position in ReadRegisters/WriteRegister/WriteValue
    attempt,    \* per caller: retry's loop variable
    opres,      \* per caller: what the last op() returned ("none", "ok", an error)
    retto,      \* per caller: which connectWithRetry call of retry is running
    backoff,    \* per caller: connectWithRetry's backoff, seconds
    result,     \* per caller: what the last call returned ("none", "ok", "err")
    wreq,       \* WriteValue: the call in progress (register name, value)
    wire,       \* the words of the write request sent to the device, if any
    wret,       \* WriteValue: what the call returned
    rreq,       \* ReadValue: the last call (register name, whether it went to the
                \* wire, the words asked for and those received)
    rret,       \* ReadValue: what the last call returned (a value or an error)
    exited,     \* the process was ended by log.Fatal
    \* ---- Go slices of one register's history (ListAll / LatestAll) ----
    arrays,     \* the backing arrays allocated so far, each a sequence of entries
    hdr,        \* s.history[name]: the slice header (array, offset, length)
    listed,     \* the slice header a ListAll caller holds
    latestAll,  \* the map a LatestAll caller holds
    \* ---- event bus (package eventbus), one topic ----
    bclosed,    \* b.closed
    subs,       \* b.subs: nil after Close, else the ids subscribed to the topic
    last,       \* b.last: nil after Close, else the topic's last event if any
    chbuf,      \* per subscription: the content of its channel (capacity 1)
    chclosed,   \* per subscription: its channel is closed
    bpc,        \* per sender: position in Publish / publishReplace
    bev,        \* per sender: the event it is delivering
    bchans,     \* per sender: the channels of chans still to serve
    bcur,       \* per sender: the channel publishReplace is working on
    gpc,        \* per subscription: position of Subscribe and its cleanup goroutine
    doneCh,     \* per subscription: done is closed (unsub was called)
    ctxDone,    \* per subscription: its context is cancelled
    clpc,       \* position of Close
    panicked,   \* the runtime panic that ended the process ("" for none)
    \* ---- pump duty-cycle controller (package pumpctrl) ----
    percent,    \* c.percent
    currentOn,  \* c.currentOn
    lastChange, \* c.lastChange, half minutes (-1: the zero time.Time)
    updateCh,   \* c.updateCh: the content of the channel (capacity 1)
    pnow,       \* the clock, half minutes since the controller was built
    pstart,     \* the minute of the hour at which the controller was built
    tickAt,     \* when the ticker of Run fires next (-1: no ticker running)
    tickCh,     \* ticker.C: the content of the channel (capacity 1)
    ppc,        \* position of Run: "new", "running", "returned"
    pcancelled, \* the context of Run is cancelled
    spc,        \* position of the SetDutyCycle call: "idle", "drain", "resend"
    sarg,       \* SetDutyCycle: p after clamping
    \* ---- observation (history variables of the model, not program state) ----
    lastSet,    \* the duty cycle the last SetDutyCycle call was given (-1: none)
    nsets,      \* SetDutyCycle calls made
    act,        \* the last actuator call: state commanded, c.currentOn before it
    onAt,       \* when the actuator was last switched ON (-1: never)
    offAt,      \* when the actuator was last switched OFF (-1: never)
    nclose,     \* per subscription: close(ch) executions
    npub,       \* Publish calls made
    listedWas,  \* the entries of the ListAll result as returned / as its holder set them
    latestWas,  \* the LatestAll result as returned / as its holder set it
    nlist,      \* ListAll / LatestAll calls made
    nops,       \* per caller: op() executions of the current call
    recon,      \* per caller: connects it completed since its last failed op()
    slept,      \* per caller: delays slept by the current connectWithRetry
    napp,       \* per register: number of entries appended so far
    oldest,     \* per register: earliest timestamp appended so far (-1: none)
    budget,     \* appends the exploration still allows
    savedAfterCancel,  \* a saveToDisk ran after ctx was cancelled
    saved,      \* the store as it was when the snapshot file was last replaced
    loaded,     \* how the loadFromDisk of this process ended
    lateAppend  \* a group poller appended after Run returned

cfgVars == <<pollGroups, interval, aggres, vcall>>

codecVars == <<wreq, wire, wret, rreq, rret, exited>>

histVars == <<now, registers, history, rlocks, cancelled, runpc, disk, pc, idx, ets, rd,
              apc, areg, aval, http, nwrites, cfgVars,
              napp, oldest, budget, savedAfterCancel, saved, loaded, lateAppend>>

clientVars == <<mu, handler, up, inflight, cpc, attempt, opres, retto, backoff,
                result, nops, recon, slept, codecVars>>

\* the slices behind ListAll (one register's history as Go holds it)
copyVars == <<arrays, hdr, listed, listedWas, latestAll, latestWas, nlist>>

\* the event bus (package eventbus)
busVars == <<bclosed, subs, last, chbuf, chclosed, nclose, bpc, bev, bchans, bcur, gpc,
             doneCh, ctxDone, clpc, panicked, npub>>

\* the pump duty-cycle controller (internal/controller/pumpctrl)
pumpVars == <<percent, currentOn, lastChange, updateCh, pnow, pstart, tickAt, tickCh, ppc, pcancelled,
              spc, sarg, lastSet, nsets, act, onAt, offAt>>

extVars == <<copyVars, busVars, pumpVars>>

vars == <<histVars, clientVars, extVars>>

----------------------------------------------------------------------------
\* Bounds of the model

MaxTicks == 3        \* clock advances explored
MaxAppends == 3      \* Spec: entries appended to the store
MaxGroupAppends == 2 \* SpecGroups: entries appended to the store, all registers
MaxRunAppends == 3   \* SpecRun: entries appended to the store, all registers
MaxApiWrites == 1    \* /api/write requests explored
MaxReaders == 1      \* concurrent ListAll / LatestAll callers
MaxSnapAppends == 2     \* SpecSnapshot: entries appended to the store
MaxIntervalAppends == 2 \* SpecIntervals: entries appended to the store
MaxConnFails == 7    \* failed connect attempts of one connectWithRetry call
MaxListCalls == 2    \* ListAll / LatestAll calls explored
MaxCopyAppends == 3  \* SpecCopies: entries appended to the store
MaxPublishes == 2    \* SpecBus: Publish calls explored
MaxShutdownAppends == 2  \* SpecShutdown: appends of the group pollers
MaxPumpTime == 16        \* SpecPump: the clock stops after this many clock units
MaxPumpSets == 2         \* SpecPump: SetDutyCycle calls
TicksPerMinute == 2      \* SpecPump: clock units in a minute

----------------------------------------------------------------------------
\* Values and entries

\* Go's `any` holding nil / a float32
Nil == [t |-> "nil", v |-> 0]
F32(x) == [t |-> "float32", v |-> x]
\* ... a float64, an int16, a uint16, a bool (v: 1 for true, 0 for false)
F64(x) == [t |-> "float64", v |-> x]
I16(x) == [t |-> "int16", v |-> x]
U16(x) == [t |-> "uint16", v |-> x]
Bool(b) == [t |-> "bool", v |-> IF b THEN 1 ELSE 0]

\* 24 * time.Hour, in minutes
Retention == 24 * 60
\* the clock advances in half-retention steps: an entry is met younger than,
\* exactly as old as, and older than the retention window
TimeStep == Retention \div 2

\* register catalog (config shape; names taken from the code): reg.Group of
\* each register, "" meaning "default"
Groups == {"default", "fast"}
Names == {"hot_water_min_temp", "hp_input_kw", "outside_air_temp"}
GroupOf(name) == IF name = "outside_air_temp" THEN "fast" ELSE "default"
Writable(name) == name = "hot_water_min_temp"

\* Run, lines "Group registers by poll group": the names of group g among the
\* catalog regs (a Go map iterates in no fixed order; one order is taken)
NameOrder == <<"hot_water_min_temp", "hp_input_kw", "outside_air_temp">>
InGroup(regs, g, n) == n \in regs /\ GroupOf(n) = g
grouped(regs, g) ==
    LET pick[i \in 0..Len(NameOrder)] ==
            IF i = 0 THEN <<>>
            ELSE IF InGroup(regs, g, NameOrder[i])
                 THEN Append(pick[i - 1], NameOrder[i])
                 ELSE pick[i - 1]
    IN pick[Len(NameOrder)]
Members(g) == grouped(registers, g)
Started == {g \in Groups : Members(g) # <<>>}

\* decoded values the device may answer with (degrees F / kW, float32)
ReadVals(name) ==
    CASE name = "hot_water_min_temp" -> {F32(50), F32(95)}
      [] name = "hp_input_kw"        -> {F32(150)}
      [] OTHER                       -> {F32(40)}

HistoryEntry(ts, value, error) == [ts |-> ts, value |-> value, error |-> error]

EmptyHistory == [n \in Names |-> <<>>]

----------------------------------------------------------------------------
\* AnomalyDetector: the validity rules

Abs(x) == IF x < 0 THEN -x ELSE x

\* water_temp_check: 68F (20C) .. 122F (50C)
water_temp_check(tempF) ==
    IF tempF < 68 THEN "water temp too low"
    ELSE IF tempF > 122 THEN "water temp too high"
    ELSE ""

\* outside_air_temp_check: absolute bounds, then rate of change against the
\* latest entry of the register's history
outside_air_temp_check(tempF, hist, t) ==
    IF tempF < -58 THEN "air temp too low"
    ELSE IF tempF > 122 THEN "air temp too high"
    ELSE LET h == hist["outside_air_temp"] IN
         IF Len(h) = 0 THEN ""
         ELSE LET latest == h[Len(h)] IN
              IF latest.value.t # "float32" THEN ""
              ELSE IF t - latest.ts < 8 /\ Abs(tempF - latest.value.v) > 27
                   THEN "air temp changed too fast"
                   ELSE ""

\* hp_output_kw_check: zero passes, negative / above 15 fail, then plausibility
\* against the latest hp_input_kw entry
hp_output_kw_check(outputKW, hist) ==
    IF outputKW = 0 THEN ""
    ELSE IF outputKW < 0 THEN "negative output KW"
    ELSE IF outputKW > 15 THEN "output KW exceeds expected maximum (expected ~12KW max)"
    ELSE LET h == hist["hp_input_kw"] IN
         IF Len(h) > 0 /\ h[Len(h)].value.t = "float32"
         THEN IF h[Len(h)].value.v < 100 THEN "can't have output KW with no input KW"
              ELSE IF outputKW > 8 * h[Len(h)].value.v THEN "can't have output KW with COP > 8"
              ELSE ""
         ELSE ""

WaterTempRegisters == {"mix_water_temp", "return_water_temp", "hot_water_min_temp",
                       "hp_entering_water_temp", "hp_exiting_water_temp",
                       "buffer_tank_setpoint"}

\* valueErrorChecks[name] applied to a float32 ("" when the name has no check)
valueErrorChecks(name, f, hist, t) ==
    CASE name = "hp_output_kw"        -> hp_output_kw_check(f, hist)
      [] name \in WaterTempRegisters  -> water_temp_check(f)
      [] name = "outside_air_temp"    -> outside_air_temp_check(f, hist, t)
      [] OTHER                        -> ""

\* invalidValueErrorDetection: the error text, "" for a nil error
invalidValueErrorDetection(name, value, hist, t) ==
    IF value = Nil THEN "value is nil"
    ELSE IF value.t # "float32" THEN "value is not a float32"
    ELSE valueErrorChecks(name, value.v, hist, t)

----------------------------------------------------------------------------
\* HistoryStore: append and trim as pollRegisters does them under s.mu

Last(seq) == seq[Len(seq)]

\* the trim loop: idx is the first entry after the cutoff, 0 when there is none
TrimIndex(entries, t) ==
    LET cutoff == t - Retention
        after == {i \in 1..Len(entries) : entries[i].ts > cutoff}
    IN IF after = {} THEN 1
       ELSE CHOOSE i \in after : \A j \in after : i <= j

\* a trim that keeps the newest entry only
TrimKeepsLatest(entries, t) == <<Last(entries)>>

\* entries = entries[idx:]
Trim(entries, t) == SubSeq(entries, TrimIndex(entries, t), Len(entries))

\* the err that decides the entry: validation runs in the `if err != nil` branch
PollErr(name, val, err, hist, t) ==
    IF err # "" THEN invalidValueErrorDetection(name, val, hist, t) ELSE ""

\* the entry pollRegisters builds for (val, err) read at timestamp ts
PollEntry(name, ts, val, err, hist, t) ==
    LET e == PollErr(name, val, err, hist, t)
        prevValue == IF Len(hist[name]) > 0 THEN Last(hist[name]).value ELSE Nil
    IN IF e # "" THEN HistoryEntry(ts, prevValue, e)
       ELSE HistoryEntry(ts, val, "")

\* what kind of read an append came from (observation only)
ReadKind(name, val, err, hist, t) ==
    IF err # "" THEN "failed"
    ELSE IF invalidValueErrorDetection(name, val, hist, t) # "" THEN "rejected"
    ELSE "ok"


----------------------------------------------------------------------------
\* HistoryService: initial state (New: empty store, no snapshot file yet)

\* observation: the earlier of a recorded timestamp (-1: none) and ts
Earliest(old, ts) == IF old = -1 \/ ts < old THEN ts ELSE old

NoRead == [val |-> Nil, err |-> ""]
NoFile == [present |-> FALSE, data |-> EmptyHistory, synced |-> FALSE]


HistInit(regs, appends) ==
    /\ now = 0
    /\ registers = regs
    /\ history = EmptyHistory
    /\ rlocks = 0
    /\ cancelled = FALSE
    /\ runpc = "new"
    /\ disk = NoFile
    /\ pc = [g \in Groups |-> "idle"]
    /\ idx = [g \in Groups |-> 1]
    /\ ets = [g \in Groups |-> 0]
    /\ rd = [g \in Groups |-> NoRead]
    /\ apc = "idle"
    /\ areg = "none"
    /\ aval = Nil
    /\ http = 0
    /\ nwrites = 0
    /\ napp = [n \in Names |-> 0]
    /\ oldest = [n \in Names |-> -1]
    /\ budget = appends
    /\ savedAfterCancel = FALSE
    /\ saved = EmptyHistory
    /\ loaded = "missing"
    /\ lateAppend = FALSE

\* modbusConfig.PollGroups is a Go map: a function on the configured group
\* names; no poll_groups configured is the empty map
NoPollGroups == [g \in {} |-> 0]

\* the fallback interval of Run, seconds
FallbackInterval == 660

\* Run: groupIntervals := s.modbusConfig.PollGroups, or the fallback map
groupIntervals(pg) ==
    IF DOMAIN pg = {} THEN [g \in {"default"} |-> FallbackInterval] ELSE pg

\* m[k] of a Go map[string]int: the zero value for a missing key
MapGet(m, k) == IF k \in DOMAIN m THEN m[k] ELSE 0

\* Run: intervalSec, ok := groupIntervals[group];
\*      if !ok { intervalSec = groupIntervals["default"] }
intervalSec(pg, g) ==
    LET gi == groupIntervals(pg)
    IN IF g \in DOMAIN gi THEN gi[g] ELSE MapGet(gi, "default")

\* no aggregation call made yet
NoResult == [fn |-> "none", name |-> "none", window |-> 0, val |-> 0, err |-> ""]

\* no invalidValueErrorDetection call looked at yet
NoValidation == [name |-> "none", value |-> Nil, err |-> ""]

CfgInit(pg) ==
    /\ pollGroups = pg
    /\ interval = [g \in Groups |-> 0]
    /\ aggres = NoResult
    /\ vcall = NoValidation

pollVars == <<pc, idx, ets, rd>>
apiVars == <<apc, areg, aval, http, nwrites>>
obsVars == <<napp, oldest, budget, savedAfterCancel, saved, loaded, lateAppend>>

----------------------------------------------------------------------------
\* Environment: the clock and the shutdown signal

\* One clock step is half a day: none is taken while a goroutine sits between
\* the return of its read and its append, or while a reader holds the lock
\* (these last microseconds)
Tick ==
    /\ now < MaxTicks * TimeStep
    /\ rlocks = 0
    /\ apc # "lock"
    /\ \A g \in Groups : pc[g] # "append"
    /\ now' = now + TimeStep
    /\ UNCHANGED <<clientVars, extVars, cfgVars, registers, history, rlocks, cancelled, runpc, disk, pollVars,
                   apiVars, obsVars>>

\* ctxCancel(): the single shutdown signal
Cancel ==
    /\ ~cancelled
    /\ cancelled' = TRUE
    /\ UNCHANGED <<clientVars, extVars, cfgVars, now, registers, history, rlocks, runpc, disk, pollVars, apiVars, obsVars>>

----------------------------------------------------------------------------
\* HistoryService.Run

\* encoding/json of one HistoryEntry.Value (`json:"value,omitempty"`): a nil
\* value is left out, a bool is a JSON bool, every number kind a JSON number
JsonValue(v) ==
    IF v = Nil THEN [j |-> "absent", v |-> 0]
    ELSE IF v.t = "bool" THEN [j |-> "bool", v |-> v.v]
    ELSE [j |-> "number", v |-> v.v]

\* Decode into `any`: a JSON number becomes a float64, a JSON bool a bool, a
\* missing value stays nil
AnyOfJson(x) ==
    IF x.j = "absent" THEN Nil
    ELSE IF x.j = "bool" THEN [t |-> "bool", v |-> x.v]
    ELSE F64(x.v)

\* enc.Encode(copyMap): the JSON document of the store
JsonEncode(h) ==
    [n \in DOMAIN h |->
        [i \in 1..Len(h[n]) |->
            [ts |-> h[n][i].ts, value |-> JsonValue(h[n][i].value), error |-> h[n][i].error]]]

\* json.NewDecoder(gz).Decode(&data)
JsonDecode(doc) ==
    [n \in DOMAIN doc |->
        [i \in 1..Len(doc[n]) |->
            HistoryEntry(doc[n][i].ts, AnyOfJson(doc[n][i].value), doc[n][i].error)]]

\* the steps of saveToDisk that can fail ("none": all succeed)
SaveSteps == {"none", "marshal", "create", "encode", "gzclose", "sync", "rename"}

\* saveToDisk: copy the store under RLock, marshal, create the temp file,
\* encode through gzip, close gzip, fsync, close, rename over the snapshot.
\* Every failing step returns before the rename, except a failing fsync, which
\* is logged only: the rename still happens.
saveToDisk(fail) ==
    /\ IF fail \in {"none", "sync"}
       THEN /\ disk' = [present |-> TRUE, data |-> JsonEncode(history),
                        synced |-> (fail = "none")]
            /\ saved' = history
       ELSE UNCHANGED <<disk, saved>>
    /\ savedAfterCancel' = (savedAfterCancel \/ cancelled)

\* the outcomes of saveToDisk that differ in what they leave on disk: every
\* step that fails before the rename (marshal, create, encode, gzclose) leaves
\* the snapshot as the failing rename does
SaveCases == {fail \in SaveSteps : fail \notin {"marshal", "create", "encode", "gzclose"}}

\* Run up to its select loop: one goroutine per group, each starting with an
\* immediate pollRegisters
RunStart ==
    /\ runpc = "new"
    /\ runpc' = "loop"
    /\ pc' = [g \in Groups |-> IF g \in Started THEN "stamp" ELSE "idle"]
    /\ interval' = [g \in Groups |->
                        IF g \in Started THEN intervalSec(pollGroups, g) ELSE 0]
    /\ UNCHANGED <<clientVars, extVars, pollGroups, aggres, vcall, now, registers, history, rlocks, cancelled, disk, idx, ets, rd,
                   apiVars, obsVars>>

\* case <-snapshotTicker.C
RunSnapshotTick ==
    /\ runpc = "loop"
    /\ \E fail \in SaveCases : saveToDisk(fail)
    /\ UNCHANGED <<clientVars, extVars, cfgVars, now, registers, history, rlocks, cancelled, runpc, pollVars, apiVars,
                   napp, oldest, budget, loaded, lateAppend>>

\* case <-ctx.Done(): final save, then wg.Wait()
RunShutdown ==
    /\ runpc = "loop"
    /\ cancelled
    /\ \E fail \in SaveCases : saveToDisk(fail)
    /\ runpc' = "wait"
    /\ UNCHANGED <<clientVars, extVars, cfgVars, now, registers, history, rlocks, cancelled, pollVars, apiVars,
                   napp, oldest, budget, loaded, lateAppend>>

\* a Run that does not wait for its pollers
WaitGroupSkipped == TRUE

\* wg.Wait() is over once every group goroutine has called wg.Done()
WaitGroupDone == \A g \in Started : pc[g] = "done"

RunReturn ==
    /\ runpc = "wait"
    /\ WaitGroupDone
    /\ runpc' = "returned"
    /\ UNCHANGED <<clientVars, extVars, cfgVars, now, registers, history, rlocks, cancelled, disk, pollVars, apiVars, obsVars>>

----------------------------------------------------------------------------
\* runGroupPoller / pollRegisters, one register iteration in four steps

\* entry := HistoryEntry{Timestamp: time.Now()}
PollStamp(g) ==
    /\ pc[g] = "stamp"
    /\ ets' = [ets EXCEPT ![g] = now]
    /\ pc' = [pc EXCEPT ![g] = "read"]
    /\ UNCHANGED <<clientVars, extVars, cfgVars, now, registers, history, rlocks, cancelled, runpc, disk, idx, rd,
                   apiVars, obsVars>>

\* val, err := s.client.ReadValue(name), as seen by the poller: a decoded
\* value, or (nil, err)
ReadOutcomes(name) ==
    {[val |-> v, err |-> ""] : v \in ReadVals(name)}
        \cup {[val |-> Nil, err |-> "register read failed"]}

PollRead(g) ==
    /\ pc[g] = "read"
    /\ \E r \in ReadOutcomes(Members(g)[idx[g]]) : rd' = [rd EXCEPT ![g] = r]
    /\ pc' = [pc EXCEPT ![g] = "append"]
    /\ UNCHANGED <<clientVars, extVars, cfgVars, now, registers, history, rlocks, cancelled, runpc, disk, idx, ets,
                   apiVars, obsVars>>

\* s.mu.Lock() ... s.mu.Unlock(): validate, build the entry, append, trim
\* (entry, val and err are locals of the loop body: they end with it)
PollAppend(g) ==
    /\ pc[g] = "append"
    /\ rlocks = 0
    /\ budget > 0
    /\ budget' = budget - 1
    /\ LET name == Members(g)[idx[g]]
           entry == PollEntry(name, ets[g], rd[g].val, rd[g].err, history, now)
       IN /\ history' = [history EXCEPT ![name] = Trim(Append(@, entry), now)]
          /\ napp' = [napp EXCEPT ![name] = @ + 1]
          /\ oldest' = [oldest EXCEPT ![name] = Earliest(@, entry.ts)]
    /\ lateAppend' = (lateAppend \/ runpc = "returned")
    /\ pc' = [pc EXCEPT ![g] = "check"]
    /\ ets' = [ets EXCEPT ![g] = 0]
    /\ rd' = [rd EXCEPT ![g] = NoRead]
    /\ UNCHANGED <<clientVars, extVars, cfgVars, now, registers, rlocks, cancelled, runpc, disk, idx,
                   apiVars, savedAfterCancel, saved, loaded>>

\* a loop that goes on to the next register without looking at ctx
PollCheckIgnoresCancel(g) ==
    /\ pc[g] = "check"
    /\ IF idx[g] < Len(Members(g))
       THEN /\ idx' = [idx EXCEPT ![g] = @ + 1]
            /\ pc' = [pc EXCEPT ![g] = "stamp"]
       ELSE /\ idx' = [idx EXCEPT ![g] = 1]
            /\ pc' = [pc EXCEPT ![g] = "wait"]
    /\ UNCHANGED <<clientVars, extVars, cfgVars, now, registers, history, rlocks, cancelled, runpc, disk, ets, rd,
                   apiVars, obsVars>>

\* select { case <-s.ctx.Done(): return; default: continue }, and the return
\* after the last register
PollCheck(g) ==
    /\ pc[g] = "check"
    /\ IF ~cancelled /\ idx[g] < Len(Members(g))
       THEN /\ idx' = [idx EXCEPT ![g] = @ + 1]
            /\ pc' = [pc EXCEPT ![g] = "stamp"]
       ELSE /\ idx' = [idx EXCEPT ![g] = 1]
            /\ pc' = [pc EXCEPT ![g] = "wait"]
    /\ UNCHANGED <<clientVars, extVars, cfgVars, now, registers, history, rlocks, cancelled, runpc, disk, ets, rd,
                   apiVars, obsVars>>

\* runGroupPoller's select, case <-ticker.C: poll again (Go's select may take
\* this case also when ctx.Done() is ready)
PollTick(g) ==
    /\ pc[g] = "wait"
    /\ interval[g] > 0
    /\ pc' = [pc EXCEPT ![g] = "stamp"]
    /\ UNCHANGED <<clientVars, extVars, cfgVars, now, registers, history, rlocks, cancelled, runpc, disk, idx, ets, rd,
                   apiVars, obsVars>>

\* runGroupPoller's select, case <-ctx.Done(): return (deferred wg.Done())
PollExit(g) ==
    /\ pc[g] = "wait"
    /\ interval[g] > 0
    /\ cancelled
    /\ pc' = [pc EXCEPT ![g] = "done"]
    /\ UNCHANGED <<clientVars, extVars, cfgVars, now, registers, history, rlocks, cancelled, runpc, disk, idx, ets, rd,
                   apiVars, obsVars>>

\* runGroupPoller after its first pollRegisters: time.NewTicker(interval)
\* panics on a non-positive interval
PollPanic(g) ==
    /\ pc[g] = "wait"
    /\ interval[g] <= 0
    /\ pc' = [pc EXCEPT ![g] = "panic"]
    /\ UNCHANGED <<clientVars, extVars, cfgVars, now, registers, history, rlocks, cancelled, runpc, disk,
                   idx, ets, rd, apiVars, obsVars>>

----------------------------------------------------------------------------
\* New and loadFromDisk in a fresh process

\* how reading the snapshot file can end
LoadOutcomes == {"ok", "open error", "bad gzip", "bad json"}

\* a store that takes over what a failed Decode had filled in so far
loadKeepsPartial(o) ==
    IF ~disk.present \/ o \in {"open error", "bad gzip"} THEN EmptyHistory
    ELSE IF o = "bad json"
    THEN [n \in DOMAIN disk.data |->
             IF Len(disk.data[n]) = 0 THEN <<>>
             ELSE SubSeq(JsonDecode(disk.data)[n], 1, 1)]
    ELSE JsonDecode(disk.data)

\* loadFromDisk: s.history = data only after open, gzip.NewReader and Decode
\* all succeeded; every other path returns with the empty map of New
loadFromDisk(o) ==
    IF ~disk.present \/ o # "ok" THEN EmptyHistory
    ELSE JsonDecode(disk.data)

\* the process has ended (Run returned) and is started again: New builds a
\* fresh HistoryService and calls loadFromDisk
Restart(o) ==
    /\ runpc = "returned"
    /\ history' = loadFromDisk(o)
    /\ loaded' = IF ~disk.present THEN "missing" ELSE o
    /\ runpc' = "new"
    /\ cancelled' = FALSE
    /\ pc' = [g \in Groups |-> "idle"]
    /\ idx' = [g \in Groups |-> 1]
    /\ interval' = [g \in Groups |-> 0]
    /\ napp' = [n \in Names |-> 0]
    /\ oldest' = [n \in Names |-> -1]
    /\ savedAfterCancel' = FALSE
    /\ lateAppend' = FALSE
    /\ UNCHANGED <<clientVars, extVars, pollGroups, aggres, vcall, now, registers, rlocks, disk, ets, rd,
                   apiVars, budget, saved>>

----------------------------------------------------------------------------
\* handleAPIWrite and its post-write goroutine

\* POST /api/write {id: r, value: ...}; wok: s.client.WriteValue returned nil
HandleAPIWrite(r, wok) ==
    /\ nwrites < MaxApiWrites
    /\ apc = "idle"
    /\ nwrites' = nwrites + 1
    /\ IF r \notin registers \/ ~Writable(r)
       THEN /\ http' = 403
            /\ UNCHANGED <<apc, areg>>
       ELSE IF ~wok
       THEN /\ http' = 500
            /\ UNCHANGED <<apc, areg>>
       ELSE /\ http' = 200
            /\ apc' = "sleep"
            /\ areg' = r
    /\ UNCHANGED <<clientVars, extVars, cfgVars, now, registers, history, rlocks, cancelled, runpc, disk, pollVars, aval, obsVars>>

\* go func: time.Sleep(300ms); val, err := ReadValue(req.ID); on err return
ApiReread ==
    /\ apc = "sleep"
    /\ \/ \E v \in ReadVals(areg) :
             /\ aval' = v
             /\ apc' = "lock"
             /\ UNCHANGED areg
       \/ /\ apc' = "idle"
          /\ areg' = "none"
          /\ UNCHANGED aval
    /\ UNCHANGED <<clientVars, extVars, cfgVars, now, registers, history, rlocks, cancelled, runpc, disk, pollVars, http,
                   nwrites, obsVars>>

\* entry := HistoryEntry{Timestamp: time.Now(), Value: val}; s.mu.Lock();
\* s.history[req.ID] = append(...); s.mu.Unlock(); the goroutine ends
ApiAppend ==
    /\ apc = "lock"
    /\ rlocks = 0
    /\ budget > 0
    /\ budget' = budget - 1
    /\ history' = [history EXCEPT ![areg] = Append(@, HistoryEntry(now, aval, ""))]
    /\ napp' = [napp EXCEPT ![areg] = @ + 1]
    /\ oldest' = [oldest EXCEPT ![areg] = Earliest(@, now)]
    /\ apc' = "idle"
    /\ areg' = "none"
    /\ aval' = Nil
    /\ UNCHANGED <<clientVars, extVars, cfgVars, now, registers, rlocks, cancelled, runpc, disk, pollVars, http,
                   nwrites, savedAfterCancel, saved, loaded, lateAppend>>

----------------------------------------------------------------------------
\* ListAll / LatestAll / Mean / Median / PercentOn: readers of the store

\* s.mu.RLock()
ReadLock ==
    /\ rlocks < MaxReaders
    /\ rlocks' = rlocks + 1
    /\ UNCHANGED <<clientVars, extVars, cfgVars, now, registers, history, cancelled, runpc, disk, pollVars, apiVars, obsVars>>

\* the copy is taken; defer s.mu.RUnlock()
ReadUnlock ==
    /\ rlocks > 0
    /\ rlocks' = rlocks - 1
    /\ UNCHANGED <<clientVars, extVars, cfgVars, now, registers, history, cancelled, runpc, disk, pollVars, apiVars, obsVars>>

----------------------------------------------------------------------------
\* ListAll / LatestAll over Go slices: s.history[name] as a slice header on a
\* backing array, so that sharing between the store and a returned result is
\* a property of the model and not an assumption

\* the register whose slices are followed
CopyName == "hot_water_min_temp"

\* the nil slice
NilSlice == [arr |-> 0, off |-> 0, len |-> 0]

\* cap(h)
Cap(arrs, h) == IF h.arr = 0 THEN 0 ELSE Len(arrs[h.arr]) - h.off

\* the elements h[0:len(h)]
View(arrs, h) == [i \in 1..h.len |-> arrs[h.arr][h.off + i]]

\* the zero HistoryEntry of unused capacity
ZeroEntry == HistoryEntry(0, Nil, "")

Zeros(n) == [i \in 1..n |-> ZeroEntry]

\* the capacities the runtime may give a new array that must hold n elements
GrowthCaps(n) == {n, n + 1}

\* a new array holding elems with capacity c
NewArray(elems, c) == elems \o Zeros(c - Len(elems))

\* append(h, e): in place when capacity is left, else into a new array
SliceAppend(arrs, h, e) ==
    IF h.len < Cap(arrs, h)
    THEN {[arrays |-> [arrs EXCEPT ![h.arr][h.off + h.len + 1] = e],
           hdr |-> [h EXCEPT !.len = @ + 1]]}
    ELSE {[arrays |-> Append(arrs, NewArray(Append(View(arrs, h), e), c)),
           hdr |-> [arr |-> Len(arrs) + 1, off |-> 0, len |-> h.len + 1]]
             : c \in GrowthCaps(h.len + 1)}

\* h[i:], i counted from 0
Reslice(h, i) == [arr |-> h.arr, off |-> h.off + i, len |-> h.len - i]

\* arrays no slice refers to any more are gone (the garbage collector frees
\* them): the arrays that h or l refer to, in the order they were made, and
\* the two headers on them
GarbageCollected(arrs, h, l) ==
    LET live == {h.arr, l.arr} \ {0}
        keep[i \in 0..Len(arrs)] ==
            IF i = 0 THEN <<>>
            ELSE IF i \in live THEN Append(keep[i - 1], arrs[i])
            ELSE keep[i - 1]
        pos(a) == IF a = 0 THEN 0 ELSE Cardinality({x \in live : x <= a})
    IN [arrays |-> keep[Len(arrs)],
        hdr |-> [h EXCEPT !.arr = pos(@)],
        listed |-> [l EXCEPT !.arr = pos(@)]]

\* an entry a caller writes into a result it holds
Scribble == HistoryEntry(-1, Nil, "overwritten by the caller")

CopyInit ==
    /\ arrays = <<>>
    /\ hdr = NilSlice
    /\ listed = NilSlice
    /\ latestAll = <<>>
    /\ listedWas = <<>>
    /\ latestWas = <<>>
    /\ nlist = 0


\* pollRegisters on CopyName after a successful read of val, on the slices:
\* s.history[name] = append(s.history[name], entry), then entries[idx:]
PollAppendSlices(val) ==
    /\ rlocks = 0
    /\ budget > 0
    /\ budget' = budget - 1
    /\ LET entry == HistoryEntry(now, val, "")
       IN /\ \E o \in SliceAppend(arrays, hdr, entry) :
                LET trimmed == Reslice(o.hdr, TrimIndex(View(o.arrays, o.hdr), now) - 1)
                    g == GarbageCollected(o.arrays, trimmed, listed)
                IN /\ arrays' = g.arrays
                   /\ hdr' = g.hdr
                   /\ listed' = g.listed
          /\ history' = [history EXCEPT ![CopyName] = Trim(Append(@, entry), now)]
          /\ napp' = [napp EXCEPT ![CopyName] = @ + 1]
          /\ oldest' = [oldest EXCEPT ![CopyName] = Earliest(@, entry.ts)]
    /\ UNCHANGED <<clientVars, cfgVars, now, registers, rlocks, cancelled, runpc, disk, pollVars,
                   apiVars, savedAfterCancel, saved, loaded, lateAppend, listedWas,
                   latestAll, latestWas, nlist, busVars, pumpVars>>

\* a ListAll that hands out the store's own slice
ListAllAlias ==
    /\ nlist < MaxListCalls
    /\ nlist' = nlist + 1
    /\ LET g == GarbageCollected(arrays, hdr, hdr)
       IN arrays' = g.arrays /\ hdr' = g.hdr /\ listed' = g.listed
    /\ listedWas' = View(arrays, hdr)
    /\ UNCHANGED <<histVars, clientVars, latestAll, latestWas, busVars, pumpVars>>

\* ListAll(CopyName): append([]HistoryEntry(nil), s.history[name]...) under
\* s.mu.RLock()
ListAll ==
    /\ nlist < MaxListCalls
    /\ nlist' = nlist + 1
    /\ \E c \in GrowthCaps(hdr.len) :
          LET copied == IF hdr.len = 0 THEN arrays
                        ELSE Append(arrays, NewArray(View(arrays, hdr), c))
              out == IF hdr.len = 0 THEN NilSlice
                     ELSE [arr |-> Len(arrays) + 1, off |-> 0, len |-> hdr.len]
              g == GarbageCollected(copied, hdr, out)
          IN arrays' = g.arrays /\ hdr' = g.hdr /\ listed' = g.listed
    /\ listedWas' = View(arrays, hdr)
    /\ UNCHANGED <<histVars, clientVars, latestAll, latestWas, busVars, pumpVars>>

\* LatestAll(): a new map holding a copy of the last entry of every
\* non-empty history, under s.mu.RLock()
LatestAll ==
    /\ nlist < MaxListCalls
    /\ nlist' = nlist + 1
    /\ LET m == [n \in {n \in DOMAIN history : n # CopyName /\ Len(history[n]) > 0}
                        \cup (IF hdr.len > 0 THEN {CopyName} ELSE {}) |->
                    IF n = CopyName THEN View(arrays, hdr)[hdr.len] ELSE Last(history[n])]
       IN latestAll' = m /\ latestWas' = m
    /\ UNCHANGED <<histVars, clientVars, arrays, hdr, listed, listedWas, busVars, pumpVars>>

\* the holder of a ListAll result assigns result[i-1]
CallerSetsListed(i) ==
    /\ i \in 1..listed.len
    /\ listedWas[i] # Scribble
    /\ arrays' = [arrays EXCEPT ![listed.arr][listed.off + i] = Scribble]
    /\ listedWas' = [listedWas EXCEPT ![i] = Scribble]
    /\ UNCHANGED <<histVars, clientVars, hdr, listed, latestAll, latestWas, nlist, busVars, pumpVars>>

\* the holder of a LatestAll result assigns result[name]
CallerSetsLatest(name) ==
    /\ name \in DOMAIN latestAll
    /\ latestAll[name] # Scribble
    /\ latestAll' = [latestAll EXCEPT ![name] = Scribble]
    /\ latestWas' = [latestWas EXCEPT ![name] = Scribble]
    /\ UNCHANGED <<histVars, clientVars, arrays, hdr, listed, listedWas, nlist, busVars, pumpVars>>

----------------------------------------------------------------------------
\* Event bus (package eventbus): one topic, its publishers and subscribers.
\* Every critical section under b.mu is one step; the three selects of
\* publishReplace are three steps.

Publishers == {"p1", "p2"}
SubIds == {"s1", "s2"}

\* whoever runs publishReplace: Publish, and Subscribe delivering the last event
Senders == Publishers \cup SubIds

Events == {1, 2}

\* the runtime panics of the bus code
NilMapWrite == "assignment to entry in nil map"
SendOnClosed == "send on closed channel"
CloseOfClosed == "close of closed channel"

BusInit ==
    /\ bclosed = FALSE
    /\ subs = [nil |-> FALSE, ids |-> {}]
    /\ last = [nil |-> FALSE, has |-> FALSE, ev |-> 0]
    /\ chbuf = [id \in SubIds |-> <<>>]
    /\ chclosed = [id \in SubIds |-> FALSE]
    /\ nclose = [id \in SubIds |-> 0]
    /\ bpc = [a \in Senders |-> "idle"]
    /\ bev = [a \in Senders |-> 0]
    /\ bchans = [a \in Senders |-> {}]
    /\ bcur = [a \in Senders |-> "none"]
    /\ gpc = [id \in SubIds |-> "none"]
    /\ doneCh = [id \in SubIds |-> FALSE]
    /\ ctxDone = [id \in SubIds |-> FALSE]
    /\ clpc = "idle"
    /\ panicked = ""
    /\ npub = 0

----------------------------------------------------------------------------
\* Pump duty-cycle controller (internal/controller/pumpctrl/pumpctrl.go)

\* the clock counts in units of 1/TicksPerMinute of a minute
Minutes(m) == m * TicksPerMinute

\* the duty cycles SetDutyCycle is called with (whole percents), and the
\* minutes of the hour at which the controller can have been built
DutyInputs == {-5, 20, 98, 150}
StartMinutes == {0, 57}

NoActuation == [n |-> 0, on |-> FALSE, was |-> FALSE]

\* NewActuator: the zero Controller with a channel of capacity 1, built at
\* minute m of the hour
NewActuator(m) ==
    /\ percent = 0
    /\ currentOn = FALSE
    /\ lastChange = -1
    /\ updateCh = <<>>
    /\ pnow = 0
    /\ pstart = m
    /\ tickAt = -1
    /\ tickCh = <<>>
    /\ ppc = "new"
    /\ pcancelled = FALSE
    /\ spc = "idle"
    /\ sarg = 0
    /\ lastSet = -1
    /\ nsets = 0
    /\ act = NoActuation
    /\ onAt = -1
    /\ offAt = -1

\* time.Since(c.lastChange) < d; since the zero time.Time no duration is short
ElapsedBelow(d) == lastChange # -1 /\ pnow - lastChange < d

\* setPump without the minimum ON time
setPumpWithoutMinOn(on) ==
    IF \/ currentOn = on
       \/ ~currentOn /\ ElapsedBelow(Minutes(2))
    THEN UNCHANGED <<currentOn, lastChange, act, onAt, offAt>>
    ELSE /\ currentOn' = on
         /\ lastChange' = pnow
         /\ act' = [n |-> 1, on |-> on, was |-> currentOn]
         /\ onAt' = IF on THEN pnow ELSE onAt
         /\ offAt' = IF on THEN offAt ELSE pnow

\* setPump: nothing when the state is the one asked for, or when the pump has
\* been ON for less than 5 minutes or OFF for less than 2; else the new state
\* is recorded and the actuator called (its error is only logged)
setPump(on) ==
    IF \/ currentOn = on
       \/ currentOn /\ ElapsedBelow(Minutes(5))
       \/ ~currentOn /\ ElapsedBelow(Minutes(2))
    THEN UNCHANGED <<currentOn, lastChange, act, onAt, offAt>>
    ELSE /\ currentOn' = on
         /\ lastChange' = pnow
         /\ act' = [n |-> 1, on |-> on, was |-> currentOn]
         /\ onAt' = IF on THEN pnow ELSE onAt
         /\ offAt' = IF on THEN offAt ELSE pnow

MaxOf(a, b) == IF a > b THEN a ELSE b

\* tick's shouldBeOn for 0 < percent < 100 at `at` clock units past the hour.
\* runMinutes is held in fifths of a minute (60 * percent / 100 = 3 * percent / 5),
\* lengths and the position in the cycle in 1/(10 * cycles * run5) of a clock unit
shouldBeOn(pct, at) ==
    LET run5 == MaxOf(3 * pct, 25)
        cycles == MaxOf(300 \div (run5 + 10), 1)
        unit == 10 * cycles * run5
        minOn == 5 * unit * TicksPerMinute
        minOff == 2 * unit * TicksPerMinute
        evenOn == 2 * run5 * run5 * TicksPerMinute
        onLength == IF evenOn < minOn THEN minOn ELSE evenOn
        stretched == IF evenOn < minOn THEN 15000 * cycles * TicksPerMinute
                     ELSE 600 * run5 * TicksPerMinute
        cycleLength == IF stretched - onLength < minOff THEN onLength + minOff
                       ELSE stretched
        cyclePos == (at * unit) % cycleLength
    IN cyclePos < onLength

\* now.Minute() + now.Second()/60 of the tick sent at clock t, in clock units
MinuteOfHour(t) == (Minutes(pstart) + t) % Minutes(60)

\* tick(now)
tick(t) ==
    IF percent <= 0 THEN setPump(FALSE)
    ELSE IF percent >= 100 THEN setPump(TRUE)
    ELSE setPump(shouldBeOn(percent, MinuteOfHour(t)))

\* time passes; the ticker of Run sends the time every minute into ticker.C
\* and drops it when the previous tick is still there
PumpAdvance ==
    /\ pnow < MaxPumpTime
    /\ pnow' = pnow + 1
    /\ IF tickAt = pnow + 1
       THEN /\ tickCh' = IF tickCh = <<>> THEN <<pnow + 1>> ELSE tickCh
            /\ tickAt' = tickAt + Minutes(1)
       ELSE UNCHANGED <<tickCh, tickAt>>
    /\ UNCHANGED <<histVars, clientVars, copyVars, busVars, percent, currentOn, lastChange,
                   updateCh, pstart, ppc, pcancelled, spc, sarg, lastSet, nsets, act, onAt, offAt>>

\* the context given to Run is cancelled
PumpCancel ==
    /\ ~pcancelled
    /\ pcancelled' = TRUE
    /\ UNCHANGED <<histVars, clientVars, copyVars, busVars, percent, currentOn, lastChange,
                   updateCh, pnow, pstart, tickAt, tickCh, ppc, spc, sarg, lastSet, nsets,
                   act, onAt, offAt>>

\* Run: time.NewTicker(time.Minute), then the loop
PumpRunStart ==
    /\ ppc = "new"
    /\ ppc' = "running"
    /\ tickAt' = pnow + Minutes(1)
    /\ UNCHANGED <<histVars, clientVars, copyVars, busVars, percent, currentOn, lastChange,
                   updateCh, pnow, pstart, tickCh, pcancelled, spc, sarg, lastSet, nsets,
                   act, onAt, offAt>>

\* Run, case <-ctx.Done(): setPump(false), return (ticker.Stop deferred)
PumpRunDone ==
    /\ ppc = "running"
    /\ pcancelled
    /\ setPump(FALSE)
    /\ ppc' = "returned"
    /\ tickAt' = -1
    /\ UNCHANGED <<histVars, clientVars, copyVars, busVars, percent, updateCh, pnow, pstart,
                   tickCh, pcancelled, spc, sarg, lastSet, nsets>>

\* Run, case p := <-c.updateCh: c.percent = p
PumpRunUpdate ==
    /\ ppc = "running"
    /\ updateCh # <<>>
    /\ percent' = Head(updateCh)
    /\ updateCh' = <<>>
    /\ UNCHANGED <<histVars, clientVars, copyVars, busVars, currentOn, lastChange, pnow, pstart,
                   tickAt, tickCh, ppc, pcancelled, spc, sarg, lastSet, nsets, act, onAt, offAt>>

\* Run, case now := <-ticker.C: c.tick(now)
PumpRunTick ==
    /\ ppc = "running"
    /\ tickCh # <<>>
    /\ tick(Head(tickCh))
    /\ tickCh' = <<>>
    /\ UNCHANGED <<histVars, clientVars, copyVars, busVars, percent, updateCh, pnow, pstart,
                   tickAt, ppc, pcancelled, spc, sarg, lastSet, nsets>>

\* SetDutyCycle(p): clamp to 0..100, then the select: the send when the
\* channel has room, else the default case is entered
SetDutyCycle(p) ==
    LET clamped == IF p < 0 THEN 0 ELSE IF p > 100 THEN 100 ELSE p IN
    /\ spc = "idle"
    /\ nsets < MaxPumpSets
    /\ nsets' = nsets + 1
    /\ sarg' = clamped
    /\ lastSet' = clamped
    /\ IF updateCh = <<>>
       THEN updateCh' = <<clamped>> /\ spc' = "idle"
       ELSE updateCh' = updateCh /\ spc' = "drain"
    /\ UNCHANGED <<histVars, clientVars, copyVars, busVars, percent, currentOn, lastChange, pnow,
                   pstart, tickAt, tickCh, ppc, pcancelled, act, onAt, offAt>>

\* SetDutyCycle, default case: <-c.updateCh, which waits for a value
SetDutyCycleDrain ==
    /\ spc = "drain"
    /\ updateCh # <<>>
    /\ updateCh' = <<>>
    /\ spc' = "resend"
    /\ UNCHANGED <<histVars, clientVars, copyVars, busVars, percent, currentOn, lastChange, pnow,
                   pstart, tickAt, tickCh, ppc, pcancelled, sarg, lastSet, nsets, act, onAt,
                   offAt>>

\* SetDutyCycle, default case: c.updateCh <- p, which waits for room
SetDutyCycleResend ==
    /\ spc = "resend"
    /\ updateCh = <<>>
    /\ updateCh' = <<sarg>>
    /\ spc' = "idle"
    /\ UNCHANGED <<histVars, clientVars, copyVars, busVars, percent, currentOn, lastChange, pnow,
                   pstart, tickAt, tickCh, ppc, pcancelled, sarg, lastSet, nsets, act, onAt,
                   offAt>>

ExtInit == CopyInit /\ BusInit /\ NewActuator(0)

\* the goroutine that panics is not recovered: the process ends
Panic(reason) ==
    /\ panicked' = reason
    /\ UNCHANGED <<bclosed, subs, last, chbuf, chclosed, nclose, bpc, bev, bchans, bcur, gpc,
                   doneCh, ctxDone, clpc, npub>>

\* Publish: b.closed.Load(), b.eventCount.Add(1)
PublishBegin(p, ev) ==
    /\ panicked = ""
    /\ bpc[p] = "idle"
    /\ npub < MaxPublishes
    /\ npub' = npub + 1
    /\ IF bclosed
       THEN UNCHANGED <<bpc, bev>>
       ELSE /\ bpc' = [bpc EXCEPT ![p] = "lock"]
            /\ bev' = [bev EXCEPT ![p] = ev]
    /\ UNCHANGED <<histVars, clientVars, copyVars, pumpVars, bclosed, subs, last, chbuf, chclosed, nclose,
                   bchans, bcur, gpc, doneCh, ctxDone, clpc, panicked>>

\* the loop `for _, ch := range chans` of sender a with the channels rest
\* still to serve: the next channel (in any order: chans was filled by ranging
\* over a map), or the return
NextChannel(a, rest) ==
    IF rest = {}
    THEN /\ bpc' = [bpc EXCEPT ![a] = "idle"]
         /\ bcur' = [bcur EXCEPT ![a] = "none"]
         /\ bev' = [bev EXCEPT ![a] = 0]
         /\ bchans' = [bchans EXCEPT ![a] = {}]
    ELSE \E id \in rest :
            /\ bpc' = [bpc EXCEPT ![a] = "send"]
            /\ bcur' = [bcur EXCEPT ![a] = id]
            /\ bchans' = [bchans EXCEPT ![a] = rest \ {id}]
            /\ UNCHANGED bev

\* Publish, b.mu.Lock() ... b.mu.Unlock(): b.last[topic] = ev, copy the
\* topic's channels
PublishLocked(p) ==
    /\ panicked = ""
    /\ bpc[p] = "lock"
    /\ IF last.nil
       THEN Panic(NilMapWrite)
       ELSE /\ last' = [nil |-> FALSE, has |-> TRUE, ev |-> bev[p]]
            /\ NextChannel(p, subs.ids)
            /\ UNCHANGED <<bclosed, subs, chbuf, chclosed, nclose, gpc, doneCh, ctxDone, clpc,
                           panicked, npub>>
    /\ UNCHANGED <<histVars, clientVars, copyVars, pumpVars>>

\* publishReplace, first select: case ch <- ev: return
TrySend(a) ==
    /\ panicked = ""
    /\ bpc[a] = "send"
    /\ LET ch == bcur[a]
       IN IF chclosed[ch]
          THEN Panic(SendOnClosed)
          ELSE /\ IF chbuf[ch] = <<>>
                  THEN /\ chbuf' = [chbuf EXCEPT ![ch] = <<bev[a]>>]
                       /\ NextChannel(a, bchans[a])
                  ELSE /\ bpc' = [bpc EXCEPT ![a] = "drain"]
                       /\ UNCHANGED <<chbuf, bev, bchans, bcur>>
               /\ UNCHANGED <<bclosed, subs, last, chclosed, nclose, gpc, doneCh, ctxDone, clpc,
                              panicked, npub>>
    /\ UNCHANGED <<histVars, clientVars, copyVars, pumpVars>>

\* publishReplace, second select: case <-ch drops the old value (a closed,
\* empty channel yields the zero value at once)
TryDrain(a) ==
    /\ panicked = ""
    /\ bpc[a] = "drain"
    /\ chbuf' = [chbuf EXCEPT ![bcur[a]] = <<>>]
    /\ bpc' = [bpc EXCEPT ![a] = "resend"]
    /\ UNCHANGED <<histVars, clientVars, copyVars, pumpVars, bclosed, subs, last, chclosed, nclose, bev,
                   bchans, bcur, gpc, doneCh, ctxDone, clpc, panicked, npub>>

\* publishReplace, third select: case ch <- ev, or the event is dropped
TryResend(a) ==
    /\ panicked = ""
    /\ bpc[a] = "resend"
    /\ LET ch == bcur[a]
       IN IF chclosed[ch]
          THEN Panic(SendOnClosed)
          ELSE /\ chbuf' = [chbuf EXCEPT ![ch] = IF @ = <<>> THEN <<bev[a]>> ELSE @]
               /\ NextChannel(a, bchans[a])
               /\ UNCHANGED <<bclosed, subs, last, chclosed, nclose, gpc, doneCh, ctxDone, clpc,
                              panicked, npub>>
    /\ UNCHANGED <<histVars, clientVars, copyVars, pumpVars>>

\* Subscribe: b.closed.Load(); on a closed bus a new channel is made, closed
\* and returned with an empty unsubscribe
SubscribeBegin(id) ==
    /\ panicked = ""
    /\ gpc[id] = "none"
    /\ IF bclosed
       THEN /\ chclosed' = [chclosed EXCEPT ![id] = TRUE]
            /\ nclose' = [nclose EXCEPT ![id] = @ + 1]
            /\ gpc' = [gpc EXCEPT ![id] = "detached"]
       ELSE /\ gpc' = [gpc EXCEPT ![id] = "lock"]
            /\ UNCHANGED <<chclosed, nclose>>
    /\ UNCHANGED <<histVars, clientVars, copyVars, pumpVars, bclosed, subs, last, chbuf, bpc, bev, bchans,
                   bcur, doneCh, ctxDone, clpc, panicked, npub>>

\* Subscribe, b.mu.Lock() ... b.mu.Unlock(): register the channel, capture
\* the last event when withLast
SubscribeLocked(id, withLast) ==
    /\ panicked = ""
    /\ gpc[id] = "lock"
    /\ IF subs.nil
       THEN Panic(NilMapWrite)
       ELSE /\ subs' = [subs EXCEPT !.ids = @ \cup {id}]
            /\ IF withLast /\ last.has
               THEN /\ gpc' = [gpc EXCEPT ![id] = "delivering"]
                    /\ bpc' = [bpc EXCEPT ![id] = "send"]
                    /\ bev' = [bev EXCEPT ![id] = last.ev]
                    /\ bcur' = [bcur EXCEPT ![id] = id]
               ELSE /\ gpc' = [gpc EXCEPT ![id] = "waiting"]
                    /\ UNCHANGED <<bpc, bev, bcur>>
            /\ UNCHANGED <<bclosed, last, chbuf, chclosed, nclose, bchans, doneCh, ctxDone, clpc,
                           panicked, npub>>
    /\ UNCHANGED <<histVars, clientVars, copyVars, pumpVars>>

\* Subscribe after publishReplace(ch, last): the cleanup goroutine is started,
\* ch and unsub are returned
SubscribeReturn(id) ==
    /\ panicked = ""
    /\ gpc[id] = "delivering"
    /\ bpc[id] = "idle"
    /\ gpc' = [gpc EXCEPT ![id] = "waiting"]
    /\ UNCHANGED <<histVars, clientVars, copyVars, pumpVars, bclosed, subs, last, chbuf, chclosed, nclose,
                   bpc, bev, bchans, bcur, doneCh, ctxDone, clpc, panicked, npub>>

\* unsub(): close(done) unless done is closed already
Unsubscribe(id) ==
    /\ panicked = ""
    /\ gpc[id] \in {"waiting", "closing", "done"}
    /\ ~doneCh[id]
    /\ doneCh' = [doneCh EXCEPT ![id] = TRUE]
    /\ UNCHANGED <<histVars, clientVars, copyVars, pumpVars, bclosed, subs, last, chbuf, chclosed, nclose,
                   bpc, bev, bchans, bcur, gpc, ctxDone, clpc, panicked, npub>>

\* the subscription's context is cancelled
CtxCancel(id) ==
    /\ panicked = ""
    /\ gpc[id] \notin {"none", "detached"}
    /\ ~ctxDone[id]
    /\ ctxDone' = [ctxDone EXCEPT ![id] = TRUE]
    /\ UNCHANGED <<histVars, clientVars, copyVars, pumpVars, bclosed, subs, last, chbuf, chclosed, nclose,
                   bpc, bev, bchans, bcur, gpc, doneCh, clpc, panicked, npub>>

\* cleanup goroutine: woken by ctx.Done() or done; under b.mu the
\* subscription is deleted from b.subs[topic] when the topic is still there
CleanupLocked(id) ==
    /\ panicked = ""
    /\ gpc[id] = "waiting"
    /\ doneCh[id] \/ ctxDone[id]
    /\ subs' = [subs EXCEPT !.ids = @ \ {id}]
    /\ gpc' = [gpc EXCEPT ![id] = "closing"]
    /\ UNCHANGED <<histVars, clientVars, copyVars, pumpVars, bclosed, last, chbuf, chclosed, nclose, bpc,
                   bev, bchans, bcur, doneCh, ctxDone, clpc, panicked, npub>>

\* cleanup goroutine: close(ch)
CleanupClose(id) ==
    /\ panicked = ""
    /\ gpc[id] = "closing"
    /\ IF chclosed[id]
       THEN Panic(CloseOfClosed)
       ELSE /\ chclosed' = [chclosed EXCEPT ![id] = TRUE]
            /\ nclose' = [nclose EXCEPT ![id] = @ + 1]
            /\ gpc' = [gpc EXCEPT ![id] = "done"]
            /\ UNCHANGED <<bclosed, subs, last, chbuf, bpc, bev, bchans, bcur, doneCh, ctxDone,
                           clpc, panicked, npub>>
    /\ UNCHANGED <<histVars, clientVars, copyVars, pumpVars>>

\* Close: b.closed.Swap(true); a Close of a closed bus returns here
CloseBegin ==
    /\ panicked = ""
    /\ clpc = "idle"
    /\ ~bclosed
    /\ bclosed' = TRUE
    /\ clpc' = "lock"
    /\ UNCHANGED <<histVars, clientVars, copyVars, pumpVars, subs, last, chbuf, chclosed, nclose, bpc, bev,
                   bchans, bcur, gpc, doneCh, ctxDone, panicked, npub>>

\* Close, b.mu.Lock() ... b.mu.Unlock(): close every channel in b.subs, then
\* b.subs = nil, b.last = nil
CloseLocked ==
    /\ panicked = ""
    /\ clpc = "lock"
    /\ IF \E id \in subs.ids : chclosed[id]
       THEN Panic(CloseOfClosed)
       ELSE /\ chclosed' = [id \in SubIds |-> chclosed[id] \/ id \in subs.ids]
            /\ nclose' = [id \in SubIds |-> IF id \in subs.ids THEN nclose[id] + 1 ELSE nclose[id]]
            /\ subs' = [nil |-> TRUE, ids |-> {}]
            /\ last' = [nil |-> TRUE, has |-> FALSE, ev |-> 0]
            /\ clpc' = "done"
            /\ UNCHANGED <<bclosed, chbuf, bpc, bev, bchans, bcur, gpc, doneCh, ctxDone, panicked,
                           npub>>
    /\ UNCHANGED <<histVars, clientVars, copyVars, pumpVars>>

\* the subscriber receives the pending event from its channel
Receive(id) ==
    /\ panicked = ""
    /\ chbuf[id] # <<>>
    /\ chbuf' = [chbuf EXCEPT ![id] = <<>>]
    /\ UNCHANGED <<histVars, clientVars, copyVars, pumpVars, bclosed, subs, last, chclosed, nclose, bpc, bev,
                   bchans, bcur, gpc, doneCh, ctxDone, clpc, panicked, npub>>

----------------------------------------------------------------------------
\* Mean / Median / PercentOn

\* s.history[name]: the nil slice for a name that is not a key of the map
HistoryOf(name) == IF name \in DOMAIN history THEN history[name] ELSE <<>>

\* toFloat64 of the history service: ok for float64, float32, int, int16, uint16
NumericKinds == {"float64", "float32", "int", "int16", "uint16"}

\* the loop filter shared by the three: in the window, no error, a value
Counted(e, cutoff) == ~(e.ts < cutoff) /\ e.error = "" /\ e.value # Nil

\* the entries' numbers that Mean and Median collect, in store order
RECURSIVE Collect(_, _)
Collect(entries, cutoff) ==
    IF entries = <<>> THEN <<>>
    ELSE LET e == Head(entries)
             rest == Collect(Tail(entries), cutoff)
         IN IF Counted(e, cutoff) /\ e.value.t \in NumericKinds
            THEN <<e.value.v>> \o rest
            ELSE rest

RECURSIVE SumSeq(_)
SumSeq(q) == IF q = <<>> THEN 0 ELSE Head(q) + SumSeq(Tail(q))

\* sort.Float64s
RECURSIVE Insert(_, _)
Insert(x, q) ==
    IF q = <<>> THEN <<x>>
    ELSE IF x <= Head(q) THEN <<x>> \o q
    ELSE <<Head(q)>> \o Insert(x, Tail(q))

RECURSIVE SortFloat64s(_)
SortFloat64s(q) == IF q = <<>> THEN <<>> ELSE Insert(Head(q), SortFloat64s(Tail(q)))

\* a float64 result, kept exact as the fraction n / d
Frac(n, d) == [n |-> n, d |-> d]

AggError(fn, name, window, err) ==
    [fn |-> fn, name |-> name, window |-> window, val |-> Frac(0, 1), err |-> err]
AggValue(fn, name, window, val) ==
    [fn |-> fn, name |-> name, window |-> window, val |-> val, err |-> ""]

\* a Mean that answers 0 when nothing was counted
MeanZeroOnEmpty(name, window) ==
    LET nums == Collect(HistoryOf(name), now - window)
    IN IF Len(nums) = 0 THEN AggValue("Mean", name, window, Frac(0, 1))
       ELSE AggValue("Mean", name, window, Frac(SumSeq(nums), Len(nums)))

Mean(name, window) ==
    LET entries == HistoryOf(name)
        nums == Collect(entries, now - window)
    IN IF Len(entries) = 0 THEN AggError("Mean", name, window, "no history for register")
       ELSE IF Len(nums) = 0
       THEN AggError("Mean", name, window, "no numeric values for register")
       ELSE AggValue("Mean", name, window, Frac(SumSeq(nums), Len(nums)))

\* a Median that takes the middle of the values as they were collected
MedianUnsorted(name, window) ==
    LET entries == HistoryOf(name)
        nums == Collect(entries, now - window)
        mid == Len(nums) \div 2
    IN IF Len(entries) = 0 THEN AggError("Median", name, window, "no history for register")
       ELSE IF Len(nums) = 0
       THEN AggError("Median", name, window, "no numeric values for register")
       ELSE IF Len(nums) % 2 = 0
       THEN AggValue("Median", name, window, Frac(nums[mid] + nums[mid + 1], 2))
       ELSE AggValue("Median", name, window, Frac(nums[mid + 1], 1))

Median(name, window) ==
    LET entries == HistoryOf(name)
        nums == SortFloat64s(Collect(entries, now - window))
        mid == Len(nums) \div 2
    IN IF Len(entries) = 0 THEN AggError("Median", name, window, "no history for register")
       ELSE IF Len(nums) = 0
       THEN AggError("Median", name, window, "no numeric values for register")
       ELSE IF Len(nums) % 2 = 0
       THEN AggValue("Median", name, window, Frac(nums[mid] + nums[mid + 1], 2))
       ELSE AggValue("Median", name, window, Frac(nums[mid + 1], 1))

\* PercentOn's type switch: bool, and int, int16, uint16, float32, float64
\* count; any other kind is taken out of the total again
PercentKinds == {"bool", "int", "int16", "uint16", "float32", "float64"}

\* a PercentOn whose default case leaves the total as it is
PercentOnOfAll(name, window) ==
    LET entries == HistoryOf(name)
        cutoff == now - window
        counted == {i \in 1..Len(entries) : Counted(entries[i], cutoff)}
        on == {i \in counted : entries[i].value.t \in PercentKinds /\ entries[i].value.v # 0}
        total == Cardinality(counted)
    IN IF Len(entries) = 0
       THEN AggError("PercentOn", name, window, "no history for register")
       ELSE IF total <= 0
       THEN AggError("PercentOn", name, window, "no valid entries for register")
       ELSE AggValue("PercentOn", name, window, Frac(Cardinality(on) * 100, total))

PercentOn(name, window) ==
    LET entries == HistoryOf(name)
        cutoff == now - window
        counted == {i \in 1..Len(entries) :
                        Counted(entries[i], cutoff) /\ entries[i].value.t \in PercentKinds}
        on == {i \in counted : entries[i].value.v # 0}
        total == Cardinality(counted)
    IN IF Len(entries) = 0
       THEN AggError("PercentOn", name, window, "no history for register")
       ELSE IF total <= 0
       THEN AggError("PercentOn", name, window, "no valid entries for register")
       ELSE AggValue("PercentOn", name, window, Frac(Cardinality(on) * 100, total))

\* a caller (controller, HTTP API) asks for an aggregate under s.mu.RLock()
Aggregate(fn, name, window) ==
    /\ aggres' = CASE fn = "Mean"   -> Mean(name, window)
                   [] fn = "Median" -> Median(name, window)
                   [] OTHER         -> PercentOn(name, window)
    /\ UNCHANGED <<clientVars, extVars, pollGroups, interval, vcall, now, registers, history, rlocks,
                   cancelled, runpc, disk, pollVars, apiVars, obsVars>>

\* invalidValueErrorDetection(name, value, s.history) applied to a value
ValidateValue(name, value) ==
    /\ vcall' = [name |-> name, value |-> value,
                 err |-> invalidValueErrorDetection(name, value, history, now)]
    /\ UNCHANGED <<clientVars, extVars, pollGroups, interval, aggres, now, registers, history, rlocks,
                   cancelled, runpc, disk, pollVars, apiVars, obsVars>>

----------------------------------------------------------------------------
\* Modbus Client (pkg/modbus/client.wrapper.go, client.io.go)

\* callers of ReadRegisters / WriteRegister (the group pollers' ReadValue, the
\* post-write re-read) and the caller of WriteValue (HTTP write, Set* setters)
RetryCallers == {"p1", "p2"}
Writer == "w"
Callers == RetryCallers \cup {Writer}

\* errors an operation can return
ConnErrors == {"i/o timeout", "use of closed network connection"}
OtherErrors == {"modbus: exception"}

\* isConnError: a net.Error (timeout), or one of the listed messages
isConnError(err) ==
    err \in {"i/o timeout", "connection reset", "broken pipe",
             "closed by the remote host", "use of closed network connection",
             "connection refused"}

\* what a transaction on the session can return: a closed session or an
\* unreachable device gives a connection error; a live one answers, raises a
\* Modbus exception, or times out
Outcomes ==
    IF handler = "open" /\ up
    THEN {"ok", "modbus: exception", "i/o timeout"}
    ELSE IF handler = "open" THEN {"i/o timeout"}
    ELSE {"use of closed network connection"}

\* a retry loop with one attempt more than the code's
RetryAttemptsPlusOne == 2 + 1

\* retry: for attempt := 0; attempt < 2; attempt++
RetryAttempts == 2

\* connectWithRetry: backoff := time.Second; doubled after each sleep, at most 30s
BackoffStart == 1
BackoffCap == 30
\* a backoff that keeps doubling
NextBackoffUncapped(b) == b * 2

NextBackoff(b) ==
    IF b < BackoffCap
    THEN IF b * 2 > BackoffCap THEN BackoffCap ELSE b * 2
    ELSE b

\* no WriteValue call made yet
NoCall == [name |-> "none", value |-> Nil]

\* no ReadValue call made yet
NoReadCall == [name |-> "none", io |-> FALSE, n |-> 0, raw |-> <<>>]

CodecInit ==
    /\ wreq = NoCall
    /\ wire = <<>>
    /\ wret = "none"
    /\ rreq = NoReadCall
    /\ rret = Nil
    /\ exited = FALSE

\* after NewClient: connectWithRetry has succeeded once
ClientInit ==
    /\ CodecInit
    /\ mu = "free"
    /\ handler = "open"
    /\ up = TRUE
    /\ inflight = {}
    /\ cpc = [p \in Callers |-> "idle"]
    /\ attempt = [p \in Callers |-> 0]
    /\ opres = [p \in Callers |-> "none"]
    /\ retto = [p \in Callers |-> "none"]
    /\ backoff = [p \in Callers |-> 0]
    /\ result = [p \in Callers |-> "none"]
    /\ nops = [p \in Callers |-> 0]
    /\ recon = [p \in Callers |-> 0]
    /\ slept = [p \in Callers |-> <<>>]

\* the device or the network going away and coming back
DeviceFlip ==
    /\ up' = ~up
    /\ UNCHANGED <<histVars, extVars, codecVars, mu, handler, inflight, cpc, attempt, opres, retto, backoff,
                   result, nops, recon, slept>>

\* ReadRegisters / WriteRegister is called: retry(op) starts with attempt 0
Call(p) ==
    /\ cpc[p] = "idle"
    /\ cpc' = [cpc EXCEPT ![p] = "lock"]
    /\ attempt' = [attempt EXCEPT ![p] = 0]
    /\ result' = [result EXCEPT ![p] = "none"]
    /\ recon' = [recon EXCEPT ![p] = 0]
    /\ UNCHANGED <<histVars, extVars, codecVars, mu, handler, up, inflight, opres, retto, backoff,
                   nops, slept>>

\* op(): c.mu.Lock(); the transaction is sent
TxnBegin(p) ==
    /\ cpc[p] = "lock"
    /\ mu = "free"
    /\ mu' = p
    /\ inflight' = inflight \cup {p}
    /\ nops' = [nops EXCEPT ![p] = @ + 1]
    /\ cpc' = [cpc EXCEPT ![p] = "txn"]
    /\ UNCHANGED <<histVars, extVars, codecVars, handler, up, attempt, opres, retto, backoff, result,
                   recon, slept>>

\* retry returns r to the caller of ReadRegisters / WriteRegister
Return(p, r) ==
    /\ cpc' = [cpc EXCEPT ![p] = "idle"]
    /\ result' = [result EXCEPT ![p] = r]
    /\ attempt' = [attempt EXCEPT ![p] = 0]
    /\ opres' = [opres EXCEPT ![p] = "none"]
    /\ retto' = [retto EXCEPT ![p] = "none"]
    /\ backoff' = [backoff EXCEPT ![p] = 0]
    /\ nops' = [nops EXCEPT ![p] = 0]
    /\ slept' = [slept EXCEPT ![p] = <<>>]

\* connectWithRetry is entered: backoff := time.Second
EnterConnect(p, from) ==
    /\ cpc' = [cpc EXCEPT ![p] = "connect"]
    /\ retto' = [retto EXCEPT ![p] = from]
    /\ backoff' = [backoff EXCEPT ![p] = BackoffStart]
    /\ slept' = [slept EXCEPT ![p] = <<>>]
    /\ UNCHANGED <<result, nops>>

\* a retry that returns the last error without the reconnect after the loop
RetryExhaustedNoReconnect(p, err) ==
    /\ cpc' = [cpc EXCEPT ![p] = "idle"]
    /\ result' = [result EXCEPT ![p] = err]
    /\ opres' = [opres EXCEPT ![p] = "none"]
    /\ retto' = [retto EXCEPT ![p] = "none"]
    /\ backoff' = [backoff EXCEPT ![p] = 0]
    /\ nops' = [nops EXCEPT ![p] = 0]
    /\ slept' = [slept EXCEPT ![p] = <<>>]

\* retry's loop is over (attempt = 2) with the last error err:
\* "will attemp reconnect", c.connectWithRetry(), return err
RetryExhausted(p, err) ==
    /\ opres' = [opres EXCEPT ![p] = err]
    /\ EnterConnect(p, "final")

\* retry's loop after attempt++: the next attempt, or the loop is over
LoopNext(p, a, err) ==
    /\ attempt' = [attempt EXCEPT ![p] = a]
    /\ IF a < RetryAttempts
       THEN /\ cpc' = [cpc EXCEPT ![p] = "lock"]
            /\ opres' = [opres EXCEPT ![p] = err]
            /\ retto' = [retto EXCEPT ![p] = "none"]
            /\ backoff' = [backoff EXCEPT ![p] = 0]
            /\ slept' = [slept EXCEPT ![p] = <<>>]
            /\ UNCHANGED <<result, nops>>
       ELSE RetryExhausted(p, err)

\* retry's loop body after op() returned o (the mutex is released by op's defer)
RetryStep(p, o) ==
    IF o = "ok"
    THEN \* return nil
         Return(p, "ok")
    ELSE IF ~isConnError(o)
    THEN \* continue
         LoopNext(p, attempt[p] + 1, o)
    ELSE \* c.connectWithRetry(), blocks until connected
         /\ opres' = [opres EXCEPT ![p] = o]
         /\ EnterConnect(p, "loop")
         /\ UNCHANGED attempt

\* op() returns
TxnEnd(p) ==
    /\ cpc[p] = "txn"
    /\ \E o \in Outcomes :
          /\ recon' = [recon EXCEPT ![p] = IF o = "ok" THEN @ ELSE 0]
          /\ RetryStep(p, o)
    /\ mu' = "free"
    /\ inflight' = inflight \ {p}
    /\ UNCHANGED <<histVars, extVars, codecVars, handler, up>>

\* connect: c.mu.Lock(); the old handler is closed; handler.Connect starts
ConnectBegin(p) ==
    /\ cpc[p] = "connect"
    /\ mu = "free"
    /\ mu' = p
    /\ handler' = IF handler = "nil" THEN "nil" ELSE "closed"
    /\ cpc' = [cpc EXCEPT ![p] = "dialing"]
    /\ UNCHANGED <<histVars, extVars, codecVars, up, inflight, attempt, opres, retto, backoff, result,
                   nops, recon, slept>>

\* handler.Connect succeeded: c.handler, c.client are set, the mutex released
ConnectOk(p) ==
    /\ cpc[p] = "dialing"
    /\ up
    /\ handler' = "open"
    /\ mu' = "free"
    /\ recon' = [recon EXCEPT ![p] = @ + 1]
    /\ cpc' = [cpc EXCEPT ![p] = "connected"]
    /\ UNCHANGED <<histVars, extVars, codecVars, up, inflight, attempt, opres, retto, backoff, result,
                   nops, slept>>

\* connectWithRetry after connect() returned nil: return nil, back in retry
ConnectReturn(p) ==
    IF retto[p] = "loop"
    THEN \* attempt++
         LoopNext(p, attempt[p] + 1, opres[p])
    ELSE \* the call after the loop: return err
         Return(p, opres[p])

\* connectWithRetry returns nil and retry goes on
ConnectDone(p) ==
    /\ cpc[p] = "connected"
    /\ ConnectReturn(p)
    /\ UNCHANGED <<histVars, extVars, codecVars, mu, handler, up, inflight, recon>>

\* failed connect attempts of the connectWithRetry calls in progress
FailedConnects == Len(slept["p1"]) + Len(slept["p2"])

\* connectWithRetry after connect() returned an error: time.Sleep(backoff)
ConnectFailed(p) ==
    /\ cpc' = [cpc EXCEPT ![p] = "sleeping"]
    /\ slept' = [slept EXCEPT ![p] = Append(@, backoff[p])]

\* a connect that returns its error with the mutex still locked
ConnectErrKeepsMutex(p) ==
    /\ cpc[p] = "dialing"
    /\ ~up
    /\ FailedConnects < MaxConnFails
    /\ mu' = mu
    /\ ConnectFailed(p)
    /\ UNCHANGED <<histVars, extVars, codecVars, handler, up, inflight, attempt, opres, retto, backoff,
                   result, nops, recon>>

\* handler.Connect failed (the device is unreachable): the mutex is released,
\* c.handler stays the closed one
ConnectErr(p) ==
    /\ cpc[p] = "dialing"
    /\ ~up
    /\ FailedConnects < MaxConnFails
    /\ mu' = "free"
    /\ ConnectFailed(p)
    /\ UNCHANGED <<histVars, extVars, codecVars, handler, up, inflight, attempt, opres, retto, backoff,
                   result, nops, recon>>

\* the sleep is over: the backoff is raised, the loop continues
Wake(p) ==
    /\ cpc[p] = "sleeping"
    /\ backoff' = [backoff EXCEPT ![p] = NextBackoff(@)]
    /\ cpc' = [cpc EXCEPT ![p] = "connect"]
    /\ UNCHANGED <<histVars, extVars, codecVars, mu, handler, up, inflight, attempt, opres, retto, result,
                   nops, recon, slept>>

\* WriteValue: encode, then c.client.WriteMultipleRegisters(...) is sent; the
\* call is made on c.client directly, outside retry and without c.mu
WriteValueBegin ==
    /\ cpc[Writer] = "idle"
    /\ inflight' = inflight \cup {Writer}
    /\ cpc' = [cpc EXCEPT ![Writer] = "txn"]
    /\ result' = [result EXCEPT ![Writer] = "none"]
    /\ UNCHANGED <<histVars, extVars, codecVars, mu, handler, up, attempt, opres, retto, backoff, nops,
                   recon, slept>>

\* WriteMultipleRegisters returns; WriteValue returns nil or the wrapped error
WriteValueEnd ==
    /\ cpc[Writer] = "txn"
    /\ \E o \in Outcomes :
          result' = [result EXCEPT ![Writer] = IF o = "ok" THEN "ok" ELSE "err"]
    /\ inflight' = inflight \ {Writer}
    /\ cpc' = [cpc EXCEPT ![Writer] = "idle"]
    /\ UNCHANGED <<histVars, extVars, codecVars, mu, handler, up, attempt, opres, retto, backoff, nops,
                   recon, slept>>

----------------------------------------------------------------------------
\* ReadValue / WriteValue seen from the data: what is encoded, put on the
\* wire and decoded (pkg/modbus/client.io.go)

\* RegisterDef; Scale is the fraction n/d, n = 0 being Scale == 0 (unscaled)
RegisterDef(dt, sn, sd, off, w) ==
    [DataType |-> dt, Scale |-> [n |-> sn, d |-> sd], Offset |-> off, Writable |-> w]

\* c.config.Registers: one register of each wire type, a scaled one, a
\* read-only one, and two whose data_type the codec does not implement
CodecRegisters ==
    [r \in {"reg_int16", "reg_uint16", "reg_bool", "reg_float32", "reg_scaled",
            "reg_uint16_scaled", "reg_float32_scaled", "reg_bool_scaled",
            "reg_binary", "reg_int32", "reg_readonly"} |->
        CASE r = "reg_int16"    -> RegisterDef("int16", 0, 1, 0, TRUE)
          [] r = "reg_uint16"   -> RegisterDef("uint16", 0, 1, 0, TRUE)
          [] r = "reg_bool"     -> RegisterDef("bool", 0, 1, 0, TRUE)
          [] r = "reg_float32"  -> RegisterDef("float32", 0, 1, 0, TRUE)
          [] r = "reg_scaled"   -> RegisterDef("int16", 1, 10, 0, TRUE)
          [] r = "reg_uint16_scaled"  -> RegisterDef("uint16", 2, 1, 1, TRUE)
          [] r = "reg_float32_scaled" -> RegisterDef("float32", 1, 2, 3, TRUE)
          [] r = "reg_bool_scaled"    -> RegisterDef("bool", 2, 1, 5, TRUE)
          [] r = "reg_binary"   -> RegisterDef("binary", 0, 1, 0, TRUE)
          [] r = "reg_int32"    -> RegisterDef("int32", 0, 1, 0, TRUE)
          [] OTHER              -> RegisterDef("int16", 0, 1, 0, FALSE)]

MinInt16 == -32768
MaxInt16 == 32767
MaxUint16 == 65535
WordModulus == 65536

\* a Go string value (not numeric, not bool)
Str == [t |-> "string", v |-> 0]

\* toFloat64 of the client: every int, uint and float kind and bool convert
ConvertibleKinds == {"float64", "float32", "int", "int16", "uint16", "bool"}

\* math.Round of a value n/d, d > 0: half away from zero
Round(n, d) ==
    IF n >= 0 THEN (2 * n + d) \div (2 * d) ELSE -((2 * (-n) + d) \div (2 * d))

\* uint64(f) of a float64: exact for a representable value; for a negative
\* one Go leaves the result to the implementation: amd64 wraps it to a value
\* far above MaxUint16 (stood for by WrappedUint64), arm64 saturates to 0
WrappedUint64 == 16384 * WordModulus

Uint64OfFloat(x) ==
    IF x >= 0 THEN {x} ELSE {WrappedUint64, 0}

\* uint16(ival): the low 16 bits
Uint16(x) == x % WordModulus

RECURSIVE Log2(_)
Log2(a) == IF a < 2 THEN 0 ELSE 1 + Log2(a \div 2)

\* float32ToBytes: the IEEE-754 single of an integer-valued x, |x| < 2^24, as
\* two big-endian words
float32ToBytes(x) ==
    IF x = 0 THEN <<0, 0>>
    ELSE LET a == Abs(x)
             e == Log2(a)
             mant == (a - 2 ^ e) * 2 ^ (23 - e)
             sign == IF x < 0 THEN 1 ELSE 0
         IN <<sign * 32768 + (e + 127) * 128 + mant \div WordModulus, mant % WordModulus>>

\* bytesToFloat32 of two words holding an integer-valued single
bytesToFloat32(raw) ==
    LET sign == raw[1] \div 32768
        ex == (raw[1] % 32768) \div 128
        mant == (raw[1] % 128) * WordModulus + raw[2]
    IN IF ex = 0 /\ mant = 0 THEN 0
       ELSE LET m == (8388608 + mant) \div 2 ^ (150 - ex)
            IN IF sign = 1 THEN -m ELSE m

bytesToUint16(raw) == raw[1]

\* a decoder that takes the word of an int16 register as unsigned
bytesToInt16Unsigned(raw) == raw[1]

\* int16(binary.BigEndian.Uint16(b)): two's complement
bytesToInt16(raw) == IF raw[1] > MaxInt16 THEN raw[1] - WordModulus ELSE raw[1]

\* the outcome of a WriteValue call: the error ("" for nil) and the words of
\* the request put on the wire (<<>>: no wire I/O)
WriteFailed(err) == [err |-> err, words |-> <<>>]

\* c.client.WriteMultipleRegisters(address, count, words) was called
WriteSent(words, ioerr) ==
    [err |-> IF ioerr THEN "failed to write register" ELSE "", words |-> words]

\* WriteValue's encoding of valf64 = n/d for data type dt: the words, or the
\* range error
EncodeOutcomes(dt, n, d) ==
    CASE dt = "float32" ->
            \* every value of the model is inside the float32 range
            {[err |-> "", words |-> float32ToBytes(n \div d)]}
      [] dt = "int16" ->
            LET ival == Round(n, d)
            IN IF ival < MinInt16 \/ ival > MaxInt16
               THEN {WriteFailed("out of int16 range")}
               ELSE {[err |-> "", words |-> <<Uint16(ival)>>]}
      [] dt = "uint16" ->
            {IF ival > MaxUint16 THEN WriteFailed("out of uint16 range")
                                 ELSE [err |-> "", words |-> <<Uint16(ival)>>]
                : ival \in Uint64OfFloat(Round(n, d))}
      [] dt = "bool" ->
            {[err |-> "", words |-> IF n # 0 THEN <<MaxUint16>> ELSE <<0>>]}
      [] OTHER -> {WriteFailed("unsupported data type")}

\* every way WriteValue(name, value) can end
WriteOutcomes(name, value) ==
    IF name \notin DOMAIN CodecRegisters
    THEN {WriteFailed("register not configured")}
    ELSE IF value.t \notin ConvertibleKinds
    THEN {WriteFailed("value is not a numeric or bool type")}
    ELSE LET regDef == CodecRegisters[name]
             \* valf64 = (valf64 - Offset) / Scale when Scale != 0
             n == IF regDef.Scale.n # 0 THEN (value.v - regDef.Offset) * regDef.Scale.d
                  ELSE value.v
             d == IF regDef.Scale.n # 0 THEN regDef.Scale.n ELSE 1
         IN UNION {IF e.err # "" THEN {e}
                   ELSE {WriteSent(e.words, io) : io \in BOOLEAN}
                      : e \in EncodeOutcomes(regDef.DataType, n, d)}

\* WriteValue(name, value), start to return
WriteValue(name, value) ==
    /\ ~exited
    /\ wreq' = [name |-> name, value |-> value]
    /\ \E o \in WriteOutcomes(name, value) :
          /\ wret' = IF o.err = "" THEN "ok" ELSE o.err
          /\ wire' = o.words
    /\ rreq' = NoReadCall
    /\ rret' = Nil
    /\ UNCHANGED exited
    /\ UNCHANGED <<histVars, extVars, mu, handler, up, inflight, cpc, attempt, opres, retto,
                   backoff, result, nops, recon, slept>>

\* the data types registerCountFromDataType has a case for
CountedDataTypes == {"uint16", "int16", "float32", "bool"}

\* registerCountFromDataType(dt); for any other dt it calls c.log.Fatal, which
\* panics
registerCountFromDataType(dt) ==
    CASE dt \in {"uint16", "int16", "bool"} -> 1
      [] dt = "float32" -> 2

\* an error returned by ReadValue
ReadError(msg) == [t |-> "error", v |-> 0, err |-> msg]

\* a decoding that scales and forgets the offset
DecodeValueWithoutOffset(regDef, raw) ==
    LET dt == regDef.DataType
        natural == CASE dt = "float32" -> bytesToFloat32(raw)
                     [] dt = "int16"   -> bytesToInt16(raw)
                     [] OTHER          -> bytesToUint16(raw)
    IN IF dt \in {"bool", "binary"} THEN Bool(bytesToUint16(raw) # 0)
       ELSE IF dt \notin {"float32", "int16", "uint16"}
       THEN ReadError("unsupported data type")
       ELSE IF regDef.Scale.n = 0
       THEN [t |-> dt, v |-> natural]
       ELSE [t |-> "float32", v |-> natural * regDef.Scale.n, d |-> regDef.Scale.d]

\* ReadValue's decoding of the words raw for register definition regDef
DecodeValue(regDef, raw) ==
    LET dt == regDef.DataType
        natural == CASE dt = "float32" -> bytesToFloat32(raw)
                     [] dt = "int16"   -> bytesToInt16(raw)
                     [] OTHER          -> bytesToUint16(raw)
    IN IF dt \in {"bool", "binary"} THEN Bool(bytesToUint16(raw) # 0)
       ELSE IF dt \notin {"float32", "int16", "uint16"}
       THEN ReadError("unsupported data type")
       ELSE IF regDef.Scale.n = 0
       THEN [t |-> dt, v |-> natural]
       ELSE \* float32(raw*Scale + Offset), kept as the fraction v/d
            [t |-> "float32",
             v |-> natural * regDef.Scale.n + regDef.Offset * regDef.Scale.d,
             d |-> regDef.Scale.d]

\* what the device may hold in a register of n words that this client did
\* not just write
DeviceWords(n) ==
    IF n = 1 THEN {<<0>>, <<1>>, <<MaxUint16>>} ELSE {<<0, 0>>, float32ToBytes(1)}

\* the words c.ReadRegisters returns for register name: those of the last
\* write when it succeeded, any words otherwise
WordsRead(name, n) ==
    IF wreq.name = name /\ wret = "ok" THEN {wire} ELSE DeviceWords(n)

\* every way ReadValue(name) can return once the register count is known:
\* the read fails, the answer is too short, or the words are decoded
ReadValueOutcomes(name) ==
    LET regDef == CodecRegisters[name]
        nregisters == registerCountFromDataType(regDef.DataType)
    IN {[ret |-> ReadError("register read failed"), n |-> nregisters, raw |-> <<>>],
        [ret |-> ReadError("returned insufficient data"), n |-> nregisters, raw |-> <<>>]}
         \cup {[ret |-> DecodeValue(regDef, raw), n |-> nregisters, raw |-> raw]
                  : raw \in WordsRead(name, nregisters)}

\* ReadValue(name), start to return
ReadValue(name) ==
    /\ ~exited
    /\ IF name \notin DOMAIN CodecRegisters
       THEN /\ rreq' = [name |-> name, io |-> FALSE, n |-> 0, raw |-> <<>>]
            /\ rret' = ReadError("register not configured")
            /\ UNCHANGED exited
       ELSE IF CodecRegisters[name].DataType \notin CountedDataTypes
       THEN \* c.log.Fatal inside registerCountFromDataType
            /\ rreq' = [name |-> name, io |-> FALSE, n |-> 0, raw |-> <<>>]
            /\ rret' = Nil
            /\ exited' = TRUE
       ELSE /\ \E o \in ReadValueOutcomes(name) :
                  /\ rreq' = [name |-> name, io |-> TRUE, n |-> o.n, raw |-> o.raw]
                  /\ rret' = o.ret
            /\ UNCHANGED exited
    /\ UNCHANGED <<histVars, extVars, mu, handler, up, inflight, cpc, attempt, opres, retto,
                   backoff, result, nops, recon, slept, wreq, wire, wret>>

----------------------------------------------------------------------------
\* The history store at work on one register: its group poller, the post-write
\* re-read, readers, the clock
Init == HistInit({"hot_water_min_temp"}, MaxAppends) /\ CfgInit(NoPollGroups) /\ ClientInit /\ ExtInit

Next ==
    \/ Tick
    \/ RunStart
    \/ \E g \in Groups : PollStamp(g)
    \/ \E g \in Groups : PollRead(g)
    \/ \E g \in Groups : PollAppend(g)
    \/ \E g \in Groups : PollCheck(g)
    \/ \E g \in Groups : PollTick(g)
    \/ \E r \in Names, wok \in BOOLEAN : HandleAPIWrite(r, wok)
    \/ ApiReread
    \/ ApiAppend
    \/ ReadLock
    \/ ReadUnlock

Spec == Init /\ [][Next]_vars

\* Two groups polling different registers while readers hold the store lock
InitGroups ==
    HistInit({"hot_water_min_temp", "outside_air_temp"}, MaxGroupAppends) /\ CfgInit(NoPollGroups) /\ ClientInit /\ ExtInit

NextGroups ==
    \/ Tick
    \/ RunStart
    \/ \E g \in Groups : PollStamp(g)
    \/ \E g \in Groups : PollRead(g)
    \/ \E g \in Groups : PollAppend(g)
    \/ \E g \in Groups : PollCheck(g)
    \/ \E g \in Groups : PollTick(g)
    \/ ReadLock
    \/ ReadUnlock

SpecGroups == InitGroups /\ [][NextGroups]_vars

\* Run and its shutdown: the snapshot loop, the pollers, the shutdown signal
NextRun ==
    \/ Cancel
    \/ RunStart
    \/ RunSnapshotTick
    \/ RunShutdown
    \/ RunReturn
    \/ \E g \in Groups : PollStamp(g)
    \/ \E g \in Groups : PollRead(g)
    \/ \E g \in Groups : PollAppend(g)
    \/ \E g \in Groups : PollCheck(g)
    \/ \E g \in Groups : PollTick(g)
    \/ \E g \in Groups : PollExit(g)

\* catalog of the shutdown specification: a group of two registers and a group of one
InitRun == HistInit(Names, MaxRunAppends) /\ CfgInit(NoPollGroups) /\ ClientInit /\ ExtInit

SpecRun == InitRun /\ [][NextRun]_vars

\* The snapshot file over shutdowns and restarts of the service
InitSnapshot ==
    HistInit({"hot_water_min_temp"}, MaxSnapAppends) /\ CfgInit(NoPollGroups) /\ ClientInit /\ ExtInit

NextSnapshot ==
    \/ Cancel
    \/ RunStart
    \/ RunSnapshotTick
    \/ RunShutdown
    \/ RunReturn
    \/ \E g \in Groups : PollStamp(g)
    \/ \E g \in Groups : PollRead(g)
    \/ \E g \in Groups : PollAppend(g)
    \/ \E g \in Groups : PollCheck(g)
    \/ \E g \in Groups : PollTick(g)
    \/ \E g \in Groups : PollExit(g)
    \/ \E o \in LoadOutcomes : Restart(o)

SpecSnapshot == InitSnapshot /\ [][NextSnapshot]_vars

\* Run's poll intervals under every poll_groups configuration
CfgGroups == {"default", "fast", "slow"}
CfgSeconds == {1, 5}
PollGroupConfigs == UNION {[D -> CfgSeconds] : D \in SUBSET CfgGroups}

InitIntervals ==
    /\ HistInit({"hot_water_min_temp", "outside_air_temp"}, MaxIntervalAppends)
    /\ \E pg \in PollGroupConfigs : CfgInit(pg)
    /\ ClientInit /\ ExtInit

NextIntervals ==
    \/ RunStart
    \/ \E g \in Groups : PollStamp(g)
    \/ \E g \in Groups : PollRead(g)
    \/ \E g \in Groups : PollAppend(g)
    \/ \E g \in Groups : PollCheck(g)
    \/ \E g \in Groups : PollTick(g)
    \/ \E g \in Groups : PollPanic(g)

SpecIntervals == InitIntervals /\ [][NextIntervals]_vars

\* The aggregations over a store holding entries of every kind
AggTimes == {0, TimeStep}
AggValues == {Nil, F32(0), F32(95), F64(-95), I16(-5), Bool(TRUE), Bool(FALSE)}
AggErrors == {"", "register read failed"}
AggEntries == {HistoryEntry(ts, v, e) : ts \in AggTimes, v \in AggValues, e \in AggErrors}
AggHistories ==
    {<<>>} \cup {<<a>> : a \in AggEntries} \cup {<<a, b>> : a, b \in AggEntries}
\* longer histories: five numbers out of order; numbers of several kinds
\* among an old entry, a bool and a failed read; three true among ten bools
SeriesOfFive ==
    [i \in 1..5 |-> HistoryEntry(TimeStep, F32(<<3, 1, 5, 2, 4>>[i]), "")]
SeriesMixed ==
    <<HistoryEntry(0, F32(4), ""),
      HistoryEntry(TimeStep, Bool(TRUE), ""),
      HistoryEntry(TimeStep, F64(2), ""),
      HistoryEntry(TimeStep, I16(1), ""),
      HistoryEntry(TimeStep, F32(7), "register read failed"),
      HistoryEntry(TimeStep, U16(4), ""),
      HistoryEntry(TimeStep, Str, "")>>
SeriesOfBools ==
    [i \in 1..10 |-> HistoryEntry(TimeStep, Bool(i \in {2, 5, 9}), "")]
AggSeries == {SeriesOfFive, SeriesMixed, SeriesOfBools}
AggNames == {"hot_water_min_temp", "not_configured"}
AggWindows == {TimeStep, 2 * TimeStep}
AggFns == {"Mean", "Median", "PercentOn"}

InitAggregate ==
    /\ now = 2 * TimeStep
    /\ registers = {"hot_water_min_temp"}
    /\ \E h \in AggHistories \cup AggSeries :
          history = [EmptyHistory EXCEPT !["hot_water_min_temp"] = h]
    /\ rlocks = 0
    /\ cancelled = FALSE
    /\ runpc = "new"
    /\ disk = NoFile
    /\ pc = [g \in Groups |-> "idle"]
    /\ idx = [g \in Groups |-> 1]
    /\ ets = [g \in Groups |-> 0]
    /\ rd = [g \in Groups |-> NoRead]
    /\ apc = "idle"
    /\ areg = "none"
    /\ aval = Nil
    /\ http = 0
    /\ nwrites = 0
    /\ napp = [n \in Names |-> 0]
    /\ oldest = [n \in Names |-> -1]
    /\ budget = 0
    /\ savedAfterCancel = FALSE
    /\ saved = EmptyHistory
    /\ loaded = "missing"
    /\ lateAppend = FALSE
    /\ CfgInit(NoPollGroups)
    /\ ClientInit /\ ExtInit

NextAggregate ==
    \E fn \in AggFns, name \in AggNames, window \in AggWindows : Aggregate(fn, name, window)

SpecAggregate == InitAggregate /\ [][NextAggregate]_vars

\* Validation of every kind of value ReadValue can return (and nil), for
\* names with and without an entry in valueErrorChecks
ValidatedNames == {"hp_output_kw", "mix_water_temp", "hot_water_min_temp", "outside_air_temp",
                   "hp_input_kw", "hp_status", "fan_speed"}
ValidatedFloats == {-59, -58, -1, 0, 5, 15, 16, 32, 33, 67, 68, 87, 88, 95, 122, 123}
ValidatedValues ==
    {F32(x) : x \in ValidatedFloats}
        \cup {Nil, I16(-5), I16(95), U16(95), Bool(TRUE), Bool(FALSE)}
InputKwHistories ==
    {<<>>, <<HistoryEntry(TimeStep, F32(50), "")>>, <<HistoryEntry(TimeStep, F32(200), "")>>}

\* outside_air_temp entries 7, 8 and 9 minutes old at the time of the check,
\* and an entry of a failed first read, which holds no value
AirTempHistories ==
    {<<>>,
     <<HistoryEntry(2 * TimeStep - 7, F32(60), "")>>,
     <<HistoryEntry(2 * TimeStep - 8, F32(60), "")>>,
     <<HistoryEntry(2 * TimeStep - 9, F32(60), "")>>,
     <<HistoryEntry(2 * TimeStep - 7, F32(20), ""), HistoryEntry(2 * TimeStep - 1, F32(60), "")>>,
     <<HistoryEntry(2 * TimeStep - 1, Nil, "register read failed")>>}

\* the store as the pollers filled it (restored = FALSE), or as New restored
\* it from the snapshot a previous run saved (restored = TRUE)
InitValidate ==
    /\ now = 2 * TimeStep
    /\ registers = Names
    /\ \E hi \in InputKwHistories, ha \in AirTempHistories, restored \in BOOLEAN :
          LET polled == [EmptyHistory EXCEPT !["hp_input_kw"] = hi,
                                            !["outside_air_temp"] = ha]
          IN IF restored
             THEN /\ disk = [present |-> TRUE, data |-> JsonEncode(polled), synced |-> TRUE]
                  /\ history = JsonDecode(JsonEncode(polled))
                  /\ loaded = "ok"
             ELSE /\ disk = NoFile
                  /\ history = polled
                  /\ loaded = "missing"
    /\ rlocks = 0
    /\ cancelled = FALSE
    /\ runpc = "new"
    /\ pc = [g \in Groups |-> "idle"]
    /\ idx = [g \in Groups |-> 1]
    /\ ets = [g \in Groups |-> 0]
    /\ rd = [g \in Groups |-> NoRead]
    /\ apc = "idle"
    /\ areg = "none"
    /\ aval = Nil
    /\ http = 0
    /\ nwrites = 0
    /\ napp = [n \in Names |-> 0]
    /\ oldest = [n \in Names |-> -1]
    /\ budget = 0
    /\ savedAfterCancel = FALSE
    /\ saved = EmptyHistory
    /\ lateAppend = FALSE
    /\ CfgInit(NoPollGroups)
    /\ ClientInit /\ ExtInit

NextValidate ==
    \E name \in ValidatedNames, value \in ValidatedValues : ValidateValue(name, value)

SpecValidate == InitValidate /\ [][NextValidate]_vars

\* One register's history as slices, its poller, and the callers of ListAll
\* and LatestAll
InitCopies ==
    HistInit({CopyName}, MaxCopyAppends) /\ CfgInit(NoPollGroups) /\ ClientInit /\ ExtInit

NextCopies ==
    \/ Tick
    \/ PollAppendSlices(F32(95))
    \/ ListAll
    \/ LatestAll
    \/ \E i \in 1..MaxCopyAppends : CallerSetsListed(i)
    \/ \E name \in Names : CallerSetsLatest(name)

SpecCopies == InitCopies /\ [][NextCopies]_vars

\* The event bus with two publishers, two subscriptions and one Close
InitBus == HistInit(Names, 0) /\ CfgInit(NoPollGroups) /\ ClientInit /\ ExtInit

NextBus ==
    \/ \E p \in Publishers, ev \in Events : PublishBegin(p, ev)
    \/ \E p \in Publishers : PublishLocked(p)
    \/ \E a \in Senders : TrySend(a)
    \/ \E a \in Senders : TryDrain(a)
    \/ \E a \in Senders : TryResend(a)
    \/ \E id \in SubIds : SubscribeBegin(id)
    \/ \E id \in SubIds, withLast \in BOOLEAN : SubscribeLocked(id, withLast)
    \/ \E id \in SubIds : SubscribeReturn(id)
    \/ \E id \in SubIds : Unsubscribe(id)
    \/ \E id \in SubIds : CtxCancel(id)
    \/ \E id \in SubIds : CleanupLocked(id)
    \/ \E id \in SubIds : CleanupClose(id)
    \/ \E id \in SubIds : Receive(id)
    \/ CloseBegin
    \/ CloseLocked

SpecBus == InitBus /\ [][NextBus]_vars

\* The Modbus client shared by two retrying callers and a WriteValue caller
InitClient == HistInit(Names, 0) /\ CfgInit(NoPollGroups) /\ ClientInit /\ ExtInit

NextClient ==
    \/ DeviceFlip
    \/ \E p \in RetryCallers : Call(p)
    \/ \E p \in RetryCallers : TxnBegin(p)
    \/ \E p \in RetryCallers : TxnEnd(p)
    \/ \E p \in RetryCallers : ConnectBegin(p)
    \/ \E p \in RetryCallers : ConnectOk(p)
    \/ \E p \in RetryCallers : ConnectDone(p)
    \/ \E p \in RetryCallers : ConnectErr(p)
    \/ \E p \in RetryCallers : Wake(p)
    \/ WriteValueBegin
    \/ WriteValueEnd

SpecClient == InitClient /\ [][NextClient]_vars

\* Run's shutdown with the pollers reading through the client: each group
\* poller's ReadValue is a ReadRegisters call of its own, made through retry
CallerOf(g) == IF g = "default" THEN "p1" ELSE "p2"

\* appends the polls in progress still have to make
PendingAppends(g) ==
    IF pc[g] \in {"stamp", "read", "append"} THEN Len(Members(g)) - idx[g] + 1
    ELSE IF pc[g] = "check" THEN Len(Members(g)) - idx[g]
    ELSE 0

\* pollRegisters calls s.client.ReadValue(name): ReadRegisters enters retry
PollReadCall(g) ==
    /\ pc[g] = "read"
    /\ result[CallerOf(g)] = "none"
    /\ Call(CallerOf(g))

\* ReadValue returns to pollRegisters: the decoded value when retry returned
\* nil, (nil, err) when it returned its last error
PollReadReturn(g) ==
    LET p == CallerOf(g)
        name == Members(g)[idx[g]]
        outcomes == IF result[p] = "ok"
                    THEN {[val |-> v, err |-> ""] : v \in ReadVals(name)}
                    ELSE {[val |-> Nil, err |-> "register read failed"]}
    IN /\ pc[g] = "read"
       /\ cpc[p] = "idle"
       /\ result[p] # "none"
       /\ \E r \in outcomes : rd' = [rd EXCEPT ![g] = r]
       /\ result' = [result EXCEPT ![p] = "none"]
       /\ pc' = [pc EXCEPT ![g] = "append"]
       /\ UNCHANGED <<extVars, cfgVars, now, registers, history, rlocks, cancelled, runpc, disk,
                      idx, ets, apiVars, obsVars, mu, handler, up, inflight, cpc, attempt,
                      opres, retto, backoff, nops, recon, slept, codecVars>>

\* the ticker fires while the appends left cover the polls in progress and
\* one more poll of the group
PollTickWithin(g) ==
    /\ budget >= PendingAppends("default") + PendingAppends("fast") + Len(Members(g))
    /\ PollTick(g)

\* connectWithRetry after a failed connect(), the sleeps not being recorded:
\* the loop has no other exit than a successful connect
ConnectErrAgain(p) ==
    /\ cpc[p] = "dialing"
    /\ ~up
    /\ mu' = "free"
    /\ cpc' = [cpc EXCEPT ![p] = "sleeping"]
    /\ UNCHANGED <<histVars, extVars, codecVars, handler, up, inflight, attempt, opres, retto,
                   backoff, result, nops, recon, slept>>

\* the steps of the Run goroutine that need no timer
RunStep == RunStart \/ RunShutdown \/ RunReturn

\* the steps of a group poller's goroutine that need neither the ticker nor
\* the device: its loop, and the client call it is in
PollerStep(g) ==
    \/ PollStamp(g)
    \/ PollReadCall(g)
    \/ PollReadReturn(g)
    \/ PollAppend(g)
    \/ PollCheck(g)
    \/ PollExit(g)
    \/ TxnBegin(CallerOf(g))
    \/ TxnEnd(CallerOf(g))
    \/ ConnectBegin(CallerOf(g))
    \/ ConnectOk(CallerOf(g))
    \/ ConnectErrAgain(CallerOf(g))
    \/ ConnectDone(CallerOf(g))
    \/ Wake(CallerOf(g))

InitShutdown ==
    HistInit({"hot_water_min_temp"}, MaxShutdownAppends)
        /\ CfgInit(NoPollGroups) /\ ClientInit /\ ExtInit

NextShutdown ==
    \/ Cancel
    \/ DeviceFlip
    \/ RunStart
    \/ RunShutdown
    \/ RunReturn
    \/ \E g \in Groups : PollStamp(g)
    \/ \E g \in Groups : PollReadCall(g)
    \/ \E g \in Groups : PollReadReturn(g)
    \/ \E g \in Groups : PollAppend(g)
    \/ \E g \in Groups : PollCheck(g)
    \/ \E g \in Groups : PollTickWithin(g)
    \/ \E g \in Groups : PollExit(g)
    \/ \E p \in RetryCallers : TxnBegin(p)
    \/ \E p \in RetryCallers : TxnEnd(p)
    \/ \E p \in RetryCallers : ConnectBegin(p)
    \/ \E p \in RetryCallers : ConnectOk(p)
    \/ \E p \in RetryCallers : ConnectErrAgain(p)
    \/ \E p \in RetryCallers : ConnectDone(p)
    \/ \E p \in RetryCallers : Wake(p)

\* the Go scheduler runs every runnable goroutine again (weak fairness of the
\* Run goroutine and of each poller), and sync.Mutex hands the lock to every
\* waiter in the end (strong fairness of the two Lock() calls); the device,
\* the shutdown signal and the tickers are under no obligation
FairShutdown ==
    /\ WF_vars(RunStep)
    /\ \A g \in Groups :
          /\ WF_vars(PollerStep(g))
          /\ SF_vars(TxnBegin(CallerOf(g)))
          /\ SF_vars(ConnectBegin(CallerOf(g)))

SpecShutdown == InitShutdown /\ [][NextShutdown]_vars /\ FairShutdown

\* the codec alone: any value written to any register name, then read back
CodecInts == {-32769, -32768, -300, -1, 0, 1, 300, 32767, 32768, 65535, 65536}
CodecValues == {F64(x) : x \in CodecInts} \cup {Bool(TRUE), Bool(FALSE), Str}
CodecNames == DOMAIN CodecRegisters \cup {"reg_unknown"}

InitCodec == HistInit(Names, 0) /\ CfgInit(NoPollGroups) /\ ClientInit /\ ExtInit

NextCodec ==
    \/ \E name \in CodecNames, value \in CodecValues : WriteValue(name, value)
    \/ \E name \in CodecNames : ReadValue(name)

SpecCodec == InitCodec /\ [][NextCodec]_vars

----------------------------------------------------------------------------
\* Claims about the history store (Spec)

PrevValue(h) == IF Len(h) > 0 THEN Last(h).value ELSE Nil

\* the step in which group g's poller appends the entry of its current register
PollAppends(g) == pc[g] = "append" /\ pc'[g] = "check"

\* an entry appended from a successful read
GoodEntry(e) == e.value # Nil /\ e.error = ""

\* C1: per register, once an entry came from a successful read every later
\* entry has a non-empty value, and an entry appended for a failed or rejected
\* read carries the value of the entry immediately before it and a non-empty
\* error.
C1_ValueCarriedForward ==
    [][ /\ \A n \in Names : \A i, j \in 1..Len(history'[n]) :
              (i < j /\ GoodEntry(history'[n][i])) => history'[n][j].value # Nil
        /\ \A g \in Groups : PollAppends(g) =>
              LET name == Members(g)[idx[g]]
                  kind == ReadKind(name, rd[g].val, rd[g].err, history, now)
                  new == Last(history'[name])
              IN kind \in {"failed", "rejected"} =>
                     new.error # "" /\ new.value = PrevValue(history[name])
      ]_vars

\* C2: a successfully read value that fails the register's validity rule is
\* stored as the previous entry's value with a non-empty error, never as the
\* rejected value itself.
C2_RejectedValueNotStored ==
    [][ \A g \in Groups : PollAppends(g) =>
            LET name == Members(g)[idx[g]]
                new == Last(history'[name])
            IN (rd[g].err = ""
                  /\ invalidValueErrorDetection(name, rd[g].val, history, now) # "")
               => /\ new.error # ""
                  /\ new.value = PrevValue(history[name])
                  /\ (Len(history[name]) > 0 /\ PrevValue(history[name]) # rd[g].val
                        => new.value # rd[g].val)
      ]_vars

\* C4: after every append to a register (poll iteration or post-write
\* re-read), every stored entry of that register is at most 24h older than the
\* time of the append.
C4_RetentionAfterAppend ==
    [][ \A n \in Names : history'[n] # history[n] =>
            \A i \in 1..Len(history'[n]) : history'[n][i].ts >= now' - Retention
      ]_vars

\* C5: the entries of a register are stored in timestamp order.
C5_TimestampOrdered ==
    \A n \in Names : \A i, j \in 1..Len(history[n]) :
        i < j => history[n][i].ts <= history[n][j].ts

\* C17: a register write leaves the history store unchanged: the store
\* changes only in the append step of a poll iteration, never as an effect of
\* a served /api/write request.
C17_WriteLeavesHistoryUnchanged ==
    [][ history' # history => \E g \in Groups : PollAppends(g) ]_vars

----------------------------------------------------------------------------
\* Claims about the Modbus client (SpecClient)

\* the steps of connectWithRetry
InConnect == {"connect", "dialing", "sleeping", "connected"}

\* the step in which caller p's ReadRegisters / WriteRegister returns an error
ReturnsError(p) == cpc[p] # "idle" /\ cpc'[p] = "idle" /\ result'[p] # "ok"

Min(a, b) == IF a < b THEN a ELSE b

\* C3: at most one Modbus transaction is in flight on the session, and every
\* transaction in flight (register read, register write, WriteValue) is made
\* by the holder of the client's mutex.
C3_OneTransactionInFlight ==
    /\ Cardinality(inflight) <= 1
    /\ \A p \in inflight : mu = p

\* C6: one ReadRegisters / WriteRegister call runs the operation at most 2
\* times; an attempt that follows a connection-class failure starts only
\* after a reconnect of the call has completed; and an attempt that succeeds
\* makes the call return success at once.
C6_RetryAtMostTwice ==
    [][ \A p \in RetryCallers :
          /\ nops'[p] <= 2
          /\ (nops'[p] = nops[p] + 1 /\ isConnError(opres[p])) => recon[p] >= 1
          /\ (cpc[p] = "txn" /\ cpc'[p] # "txn") =>
                \/ cpc'[p] = "idle" /\ result'[p] = "ok"
                \/ cpc'[p] # "idle" /\ opres'[p] \in ConnErrors \cup OtherErrors
      ]_vars

\* C6 witness: a second attempt is on the wire after a connection-class
\* failure and a reconnect
C6_Witness ==
    \E p \in RetryCallers :
        /\ cpc[p] = "txn"
        /\ nops[p] = 2
        /\ isConnError(opres[p])
        /\ recon[p] >= 1

\* C7 as stated: when a call returns an error, a reconnect of that call has
\* succeeded after its last failed attempt and the session is connected at the
\* moment of the return.
C7_Original ==
    [][ \A p \in RetryCallers : ReturnsError(p) =>
            recon'[p] >= 1 /\ handler' = "open"
      ]_vars

\* C7 amended: when a call returns an error, a reconnect of that call has
\* succeeded after its last failed attempt, and the session is connected at
\* the moment of the return unless another caller's reconnect, which closes
\* the session before dialing, is in progress.
C7_ReconnectBeforeErrorReturn ==
    [][ \A p \in RetryCallers : ReturnsError(p) =>
            /\ recon'[p] >= 1
            /\ \/ handler' = "open"
               \/ \E q \in RetryCallers \ {p} : cpc'[q] \in InConnect \ {"connected"}
      ]_vars

\* C7 witness: a call has returned an error after both attempts failed
\* without a connection-class error, and has reconnected before returning
C7_Witness ==
    \E p \in RetryCallers :
        /\ cpc[p] = "idle"
        /\ result[p] \in OtherErrors
        /\ recon[p] = 1
        /\ handler = "open"

\* C8: connectWithRetry is left only after a successful connect attempt, and
\* the delay slept after its n-th failed attempt is min(2^(n-1), 30) seconds.
C8_BackoffDoublesCapped ==
    [][ \A p \in RetryCallers :
          /\ \A n \in 1..Len(slept'[p]) : slept'[p][n] = Min(2 ^ (n - 1), 30)
          /\ (cpc[p] \in InConnect /\ cpc'[p] \notin InConnect) =>
                cpc[p] = "connected" /\ recon[p] >= 1
      ]_vars

\* C8 witness: connectWithRetry has connected after seven failed attempts
C8_Witness ==
    \E p \in RetryCallers :
        /\ cpc[p] = "connected"
        /\ slept[p] = <<1, 2, 4, 8, 16, 30, 30>>

\* C11: with two poll groups (callers p1 and p2 of ReadRegisters), a group
\* whose poll is due is never kept waiting by the other group's delayed read
\* or connect attempt: it never stands at c.mu.Lock() while the other group
\* holds the mutex.
C11_PollNotBlockedByOtherGroup ==
    \A p, q \in RetryCallers :
        p # q => ~(cpc[p] = "lock" /\ mu = q)

----------------------------------------------------------------------------
\* Claims about Run's poll intervals (SpecIntervals)

\* the interval the configuration pg gives group g: its own, else that of
\* "default", else 660 seconds
ConfiguredInterval(pg, g) ==
    IF g \in DOMAIN pg THEN pg[g]
    ELSE IF "default" \in DOMAIN pg THEN pg["default"]
    ELSE 660

\* C12: every started group poller has a positive interval: the group's own
\* configured one, else the "default" group's, else 660 seconds.
C12_PositiveInterval ==
    runpc # "new" =>
        \A g \in Started :
            interval[g] > 0 /\ interval[g] = ConfiguredInterval(pollGroups, g)

----------------------------------------------------------------------------
\* Claims about the aggregations (SpecAggregate)

\* the entries of register name in the window, with no error and a value
Qualifying(name, window) ==
    {i \in 1..Len(HistoryOf(name)) :
        /\ HistoryOf(name)[i].ts >= now - window
        /\ HistoryOf(name)[i].error = ""
        /\ HistoryOf(name)[i].value # Nil}

\* C13: Mean, Median and PercentOn return an error whenever no entry of the
\* register is in the window with an empty error and a value (unknown
\* register and empty history included); a successful result, 0 included,
\* was computed from at least one such entry.
C13_NoDataIsAnError ==
    aggres.fn # "none" =>
        /\ Qualifying(aggres.name, aggres.window) = {} => aggres.err # ""
        /\ (aggres.err = "" /\ aggres.val.n = 0) =>
               Qualifying(aggres.name, aggres.window) # {}

\* C13 witness: Mean answered an error for a register whose two entries are
\* one good value outside the window and one errored entry inside it
C13_Witness ==
    /\ aggres.fn = "Mean"
    /\ aggres.err # ""
    /\ Len(HistoryOf(aggres.name)) = 2
    /\ \E i \in 1..2 : /\ HistoryOf(aggres.name)[i].error = ""
                       /\ HistoryOf(aggres.name)[i].value = F32(95)
                       /\ HistoryOf(aggres.name)[i].ts < now - aggres.window
    /\ \E i \in 1..2 : /\ HistoryOf(aggres.name)[i].error # ""
                       /\ HistoryOf(aggres.name)[i].ts >= now - aggres.window
    /\ Qualifying(aggres.name, aggres.window) = {}

----------------------------------------------------------------------------
\* Claims about the snapshot file (SpecSnapshot)

\* the step in which a fresh process has built its store (New, loadFromDisk)
RestartStep == runpc = "returned" /\ runpc' = "new"

\* C14: a store saved by saveToDisk and loaded by loadFromDisk into a fresh
\* store is the same map: same registers, same entries in the same order,
\* each with the same timestamp, the same value of the same kind, and the same
\* error.
C14_SaveLoadRoundTrip ==
    [][ (RestartStep /\ loaded' = "ok") => history' = saved ]_vars

\* C15: the file at the snapshot path is replaced only by a temp file that
\* was written, gzip-closed and synced without error; when a step of the save
\* fails the previous file stays.
C15_SnapshotReplacedOnlyWhenSynced ==
    disk.present => disk.synced

\* C16: when the snapshot file is missing or cannot be opened, decompressed
\* or parsed, the fresh store stays the empty map and the service is ready to
\* run; otherwise the store is the completely decoded snapshot.
C16_FailedLoadLeavesEmptyStore ==
    [][ RestartStep =>
            IF loaded' # "ok"
            THEN history' = EmptyHistory /\ pc' = [g \in Groups |-> "idle"]
            ELSE history' = JsonDecode(disk.data)
      ]_vars

\* C16 witness: the service runs again on an empty store after a snapshot
\* holding an entry failed to parse
C16_Witness ==
    /\ loaded = "bad json"
    /\ disk.present
    /\ Len(disk.data["hot_water_min_temp"]) > 0
    /\ history = EmptyHistory
    /\ runpc = "loop"

----------------------------------------------------------------------------
\* Claims about Run's shutdown (SpecRun)

\* C9: Run has returned only if the shutdown signal was raised, a snapshot
\* save ran after the signal, and every group poller has exited; and no group
\* poller has appended after Run returned.
C9_RunReturnsAfterJoin ==
    runpc = "returned" =>
        /\ cancelled
        /\ savedAfterCancel
        /\ \A g \in Started : pc[g] = "done"
        /\ ~lateAppend

\* C9 witness: Run returned after all three registers were polled
C9_Witness ==
    /\ runpc = "returned"
    /\ \A n \in Names : napp[n] > 0

----------------------------------------------------------------------------
\* Claims about concurrent pollers and readers (SpecGroups)

----------------------------------------------------------------------------
\* Claims about the register codec (SpecCodec)

\* a WriteValue call that reached the wire
WireWrite == wire # <<>>

\* C18: a write to a register that is not configured, or is configured
\* without writable: true, is rejected before any wire I/O: whenever a write
\* request was put on the wire, its register is configured and writable
C18_OnlyWritableReachTheWire ==
    WireWrite => /\ wreq.name \in DOMAIN CodecRegisters
                 /\ CodecRegisters[wreq.name].Writable

\* the raw value of the last WriteValue call, rounded: (value - offset) / scale
RawOf(name, value) ==
    LET regDef == CodecRegisters[name]
    IN IF regDef.Scale.n # 0
       THEN Round((value.v - regDef.Offset) * regDef.Scale.d, regDef.Scale.n)
       ELSE value.v

\* the integer range of a data type
InRange(dt, raw) ==
    CASE dt = "int16"  -> MinInt16 <= raw /\ raw <= MaxInt16
      [] dt = "uint16" -> 0 <= raw /\ raw <= MaxUint16
      [] OTHER         -> TRUE

\* C19: a write whose unscaled raw value is outside the register's integer
\* range is rejected, never clamped or wrapped: a request of an int16 or
\* uint16 register is on the wire only with a raw value inside the range
C19_OutOfRangeRejected ==
    (/\ WireWrite
     /\ wreq.name \in DOMAIN CodecRegisters
     /\ wreq.value.t \in ConvertibleKinds)
        => InRange(CodecRegisters[wreq.name].DataType, RawOf(wreq.name, wreq.value))

\* an unscaled register of one of the one-word types
OneWordUnscaled(name) ==
    /\ name \in DOMAIN CodecRegisters
    /\ CodecRegisters[name].DataType \in {"int16", "uint16", "bool"}
    /\ CodecRegisters[name].Scale.n = 0

\* the Go value ReadValue returns for a written value of the register's type
SameValue(dt, value) ==
    IF dt = "bool" THEN Bool(value.v # 0) ELSE [t |-> dt, v |-> value.v]

BoolDef == CodecRegisters["reg_bool"]

\* C20: an in-range value written to an unscaled int16, uint16 or bool
\* register decodes back to the same value; true is the word 0xFFFF, false the
\* word 0, and every nonzero word decodes to true
C20_OneWordRoundTrip ==
    /\ (/\ rreq.name = wreq.name
        /\ wret = "ok"
        /\ rret.t \notin {"nil", "error"}
        /\ OneWordUnscaled(wreq.name)
        /\ InRange(CodecRegisters[wreq.name].DataType, wreq.value.v))
           => rret = SameValue(CodecRegisters[wreq.name].DataType, wreq.value)
    /\ (WireWrite /\ wreq.name = "reg_bool" /\ wreq.value.t \in ConvertibleKinds)
           => wire = IF wreq.value.v # 0 THEN <<MaxUint16>> ELSE <<0>>
    /\ \A w \in {1, 2, 255, 256, 32768, MaxUint16} : DecodeValue(BoolDef, <<w>>) = Bool(TRUE)
    /\ DecodeValue(BoolDef, <<0>>) = Bool(FALSE)

\* a negative int16 was written as its two's complement word and read back
C20_Witness ==
    /\ wreq = [name |-> "reg_int16", value |-> F64(-300)]
    /\ wire = <<WordModulus - 300>>
    /\ rret = I16(-300)

\* a register name the codec cannot serve: not configured, or configured with
\* a data type registerCountFromDataType / WriteValue has no case for
Unservable(name) ==
    \/ name \notin DOMAIN CodecRegisters
    \/ CodecRegisters[name].DataType \notin CountedDataTypes

\* C21: ReadValue and WriteValue called with an unknown register name, or for
\* a register of an unsupported wire type, return an error without wire I/O
\* and without ending the process
C21_UnservableReturnsError ==
    /\ ~exited
    /\ (rreq.name # "none" /\ Unservable(rreq.name))
           => rret.t = "error" /\ ~rreq.io
    /\ (wreq.name # "none" /\ Unservable(wreq.name))
           => wret \notin {"none", "ok"} /\ wire = <<>>

----------------------------------------------------------------------------
\* Claims about validation (SpecValidate)

\* the names with an entry in valueErrorChecks
RuledNames == {"hp_output_kw", "outside_air_temp"} \cup WaterTempRegisters

\* C22: for a register name without a validity rule, validation accepts every
\* successfully decoded value whatever its type: it returns no error
C22_NoRuleAlwaysPasses ==
    (/\ vcall.name # "none"
     /\ vcall.name \notin RuledNames
     /\ vcall.value # Nil)
        => vcall.err = ""

----------------------------------------------------------------------------
\* Claims about ListAll / LatestAll (SpecCopies)

\* C23: the results of ListAll and LatestAll are copies: appends and prunes
\* made afterwards do not change a result already returned (it holds what was
\* returned, or what its holder wrote into it), and writing into a result
\* does not change the store (the slice of the store holds exactly the
\* entries the pollers appended and the trim kept)
C23_ResultsAreCopies ==
    /\ View(arrays, listed) = listedWas
    /\ latestAll = latestWas
    /\ View(arrays, hdr) = history[CopyName]

\* a ListAll result of two entries was overwritten by its holder, and the
\* store has since appended an entry and pruned both entries the result
\* holds; a LatestAll result was overwritten as well
C23_Witness ==
    /\ listed.len = 2
    /\ listedWas[1] = Scribble
    /\ listedWas[2] # Scribble
    /\ CopyName \in DOMAIN latestAll /\ latestAll[CopyName] = Scribble
    /\ Len(history[CopyName]) > 0
    /\ listedWas[2].ts < history[CopyName][1].ts

----------------------------------------------------------------------------
\* Claims about the event bus (SpecBus)

\* no Publish call and no delivery of Subscribe is in progress
BusQuiet == \A a \in Senders : bpc[a] = "idle"

\* C24: once all in-progress Publish calls have returned, the event pending
\* in each subscriber's channel is the event stored as the topic's last
\* event, also with two concurrent publishers
C24_PendingIsLast ==
    (panicked = "" /\ BusQuiet /\ ~last.nil /\ last.has)
        => \A id \in subs.ids : chbuf[id] # <<>> => chbuf[id] = <<last.ev>>

\* C25: every subscriber channel is closed at most once, under any order of
\* Close, unsubscribe and context cancellation: no close(ch) is executed on a
\* closed channel
C25_ClosedOnce ==
    /\ panicked # CloseOfClosed
    /\ \A id \in SubIds : nclose[id] <= 1

\* C26: Publish never sends on a closed subscriber channel and never writes
\* to the bus's maps after Close has cleared them
C26_PublishSafeAgainstClose ==
    /\ panicked # SendOnClosed
    /\ (panicked = NilMapWrite => \A p \in Publishers : bpc[p] # "lock")

----------------------------------------------------------------------------
\* Claims about shutdown (SpecRun)

\* C27: after the shutdown signal a pollRegisters call never moves on to a
\* further register (its register index stays, or is reset by the return), so
\* it appends at most the register it is at, and the check after that append
\* returns from the call with the remaining registers unread
C27_OneMoreRegisterAfterCancel ==
    [][\A g \in Groups :
          cancelled =>
              /\ idx'[g] \in {idx[g], 1}
              /\ pc[g] = "check" => pc'[g] \in {"check", "wait"}
      ]_vars

\* the poll of the two-register group appended its first register after the
\* signal and returned: its second register has no entry
C27_Witness ==
    /\ cancelled
    /\ pc["default"] \in {"wait", "done"}
    /\ napp["hot_water_min_temp"] = 1
    /\ napp["hp_input_kw"] = 0
    /\ savedAfterCancel
    /\ history["hot_water_min_temp"] # saved["hot_water_min_temp"]

\* C28: a call of retry whose op() failures are all of the other class never
\* enters connectWithRetry (whose first statement, connect, closes the
\* session and dials a new one): when a caller goes from op() into
\* connectWithRetry, the error just returned, or the error of the call's
\* earlier attempt, is connection-class
C28_OnlyConnErrorsReconnect ==
    [][\A p \in RetryCallers :
          (cpc[p] = "txn" /\ cpc'[p] = "connect") =>
              isConnError(opres'[p]) \/ isConnError(opres[p])
      ]_vars

\* C29: once Run's final saveToDisk has copied the store (Run is in wg.Wait()
\* or has returned), no entry is appended to the history store, so the
\* snapshot written at shutdown holds every entry of the store
C29_NoAppendAfterFinalSave ==
    [][(runpc = "wait" \/ runpc = "returned") => history' = history]_vars

\* C30: after the shutdown signal, under fair scheduling, Run returns (which
\* it does once every group poller has exited), whatever the device does
C30_ShutdownTerminates == cancelled ~> (runpc = "returned")

----------------------------------------------------------------------------
\* Claims about the session mutex during reconnects (SpecClient)

\* C31: a caller sleeping between two connect attempts does not hold the
\* session mutex; the mutex is held by a caller only during one connect
\* attempt or one transaction
C31_SleepWithoutMutex ==
    \A p \in RetryCallers :
        /\ cpc[p] = "sleeping" => mu # p
        /\ mu = p => cpc[p] \in {"txn", "dialing"}

\* C31 witness: while p1 sleeps after a failed connect, p2 has the mutex for a
\* transaction of its own
C31_Witness ==
    /\ cpc["p1"] = "sleeping"
    /\ Len(slept["p1"]) > 0
    /\ mu = "p2"
    /\ cpc["p2"] = "txn"

\* the errors a transaction on an open session can end with
OpenSessionErrors == {"i/o timeout", "modbus: exception"}

\* C32: while connectWithRetry is returning to a caller p (its connect has
\* succeeded), the session it established is closed only by a caller whose
\* last transaction can have failed on that session; a caller whose
\* transaction failed on the closed session before does not close it
C32_FreshSessionNotClosed ==
    [][\A p \in RetryCallers :
          (cpc[p] = "connected" /\ handler = "open" /\ handler' # "open") =>
              \E q \in RetryCallers \ {p} :
                  /\ cpc[q] = "connect" /\ cpc'[q] = "dialing"
                  /\ opres[q] \in OpenSessionErrors
      ]_vars

----------------------------------------------------------------------------
\* Claims about the values of the aggregations (SpecAggregate)

\* a value that is a number: not nil, not a bool, not a string
IsNumber(v) == v.t \notin {"nil", "bool", "string"}

\* the entries Mean and Median are about
NumericQualifying(name, window) ==
    {i \in Qualifying(name, window) : IsNumber(HistoryOf(name)[i].value)}

\* the sum of the values of the entries of es at the indices in S
RECURSIVE SumAt(_, _)
SumAt(es, S) ==
    IF S = {} THEN 0
    ELSE LET i == CHOOSE j \in S : TRUE
         IN es[i].value.v + SumAt(es, S \ {i})

\* the k-th smallest value among the entries of es at the indices in S
KthSmallest(es, S, k) ==
    CHOOSE x \in {es[i].value.v : i \in S} :
        /\ Cardinality({i \in S : es[i].value.v < x}) < k
        /\ k <= Cardinality({i \in S : es[i].value.v <= x})

\* C33: Mean is sum / count and Median the middle value (odd count) or the
\* average of the two middle values (even count) of the numbers of exactly the
\* entries in the window with no error and a numeric value; both fail only
\* when there is no such entry; for the values 3, 1, 5, 2, 4 both are 3
C33_MeanAndMedian ==
    aggres.fn \in {"Mean", "Median"} =>
        LET es == HistoryOf(aggres.name)
            Q == NumericQualifying(aggres.name, aggres.window)
            n == Cardinality(Q)
            r == aggres.val
        IN /\ aggres.err # "" <=> n = 0
           /\ (aggres.err = "" /\ aggres.fn = "Mean") =>
                  r.d > 0 /\ r.n * n = SumAt(es, Q) * r.d
           /\ (aggres.err = "" /\ aggres.fn = "Median") =>
                  /\ r.d > 0
                  /\ IF n % 2 = 1
                     THEN r.n = KthSmallest(es, Q, (n + 1) \div 2) * r.d
                     ELSE 2 * r.n = (KthSmallest(es, Q, n \div 2)
                                        + KthSmallest(es, Q, n \div 2 + 1)) * r.d
           /\ (HistoryOf(aggres.name) = SeriesOfFive) => r.n = 3 * r.d

\* C33 witness: Median answered 3 (the average of 2 and 4) for the mixed
\* series over the longer window, where the four numbers 4, 2, 1, 4 of its
\* seven entries count
C33_Witness ==
    /\ aggres.fn = "Median"
    /\ aggres.err = ""
    /\ HistoryOf(aggres.name) = SeriesMixed
    /\ Cardinality(NumericQualifying(aggres.name, aggres.window)) = 4
    /\ aggres.val = Frac(6, 2)

\* the qualifying entries holding a bool or a number, and those of them that
\* are on: true, or a number other than 0
Switchable(name, window) ==
    {i \in Qualifying(name, window) :
        HistoryOf(name)[i].value.t = "bool" \/ IsNumber(HistoryOf(name)[i].value)}
SwitchedOn(name, window) ==
    {i \in Switchable(name, window) :
        \/ HistoryOf(name)[i].value = Bool(TRUE)
        \/ IsNumber(HistoryOf(name)[i].value) /\ HistoryOf(name)[i].value.v # 0}

\* C34: PercentOn is 100 * (entries that are on) / (qualifying entries holding
\* a bool or a number), and fails only when there is no such entry; three
\* true among ten bools give 30
C34_PercentOn ==
    aggres.fn = "PercentOn" =>
        LET total == Cardinality(Switchable(aggres.name, aggres.window))
            on == Cardinality(SwitchedOn(aggres.name, aggres.window))
            r == aggres.val
        IN /\ aggres.err # "" <=> total = 0
           /\ aggres.err = "" => r.d > 0 /\ r.n * total = 100 * on * r.d
           /\ HistoryOf(aggres.name) = SeriesOfBools => r.n = 30 * r.d

\* C34 witness: PercentOn answered 30 for three true among ten bools
C34_Witness ==
    /\ aggres.fn = "PercentOn"
    /\ aggres.err = ""
    /\ HistoryOf(aggres.name) = SeriesOfBools
    /\ Cardinality(SwitchedOn(aggres.name, aggres.window)) = 3
    /\ Cardinality(Switchable(aggres.name, aggres.window)) = 10
    /\ aggres.val = Frac(300, 10)

----------------------------------------------------------------------------
\* Claims about what ReadValue reads and returns (SpecCodec)

\* the number a word holds, read as unsigned and as two's complement
AsUnsigned(w) == w
AsSigned(w) == IF w >= 32768 THEN w - 65536 ELSE w

\* ReadValue returned a decoded value
Decoded == rreq.io /\ rret.t \notin {"nil", "error"}

\* C35: ReadValue asks for 1 word for uint16, int16 and bool registers and
\* for 2 words for float32; a bool register gives (word # 0) whatever its
\* scale; a numeric register with scale 0 gives the value the words hold, in
\* the register's own type; with a scale other than 0 it gives the float32
\* raw * scale + offset
C35_ReadValueDecoding ==
    Decoded =>
        LET def == CodecRegisters[rreq.name]
            dt == def.DataType
            sc == def.Scale
        IN /\ rreq.n = (IF dt = "float32" THEN 2 ELSE 1)
           /\ Len(rreq.raw) = rreq.n
           /\ dt = "bool" => rret = Bool(rreq.raw[1] # 0)
           /\ (dt = "uint16" /\ sc.n = 0) => rret = U16(AsUnsigned(rreq.raw[1]))
           /\ (dt = "int16" /\ sc.n = 0) => rret = I16(AsSigned(rreq.raw[1]))
           /\ (dt = "float32" /\ sc.n = 0) =>
                  rret.t = "float32" /\ float32ToBytes(rret.v) = rreq.raw
           /\ (dt \in {"uint16", "int16", "float32"} /\ sc.n # 0) =>
                  /\ rret.t = "float32"
                  /\ rret.d = sc.d
                  /\ LET scaled == rret.v - def.Offset * sc.d
                     IN /\ scaled % sc.n = 0
                        /\ CASE dt = "uint16" -> scaled \div sc.n = AsUnsigned(rreq.raw[1])
                             [] dt = "int16"  -> scaled \div sc.n = AsSigned(rreq.raw[1])
                             [] OTHER         -> float32ToBytes(scaled \div sc.n) = rreq.raw

\* C35 witness: a scaled float32 register (scale 1/2, offset 3) whose two
\* words hold 1 was read as the float32 7/2
C35_Witness ==
    /\ Decoded
    /\ rreq.name = "reg_float32_scaled"
    /\ rreq.n = 2
    /\ rreq.raw = float32ToBytes(1)
    /\ rret = [t |-> "float32", v |-> 7, d |-> 2]

----------------------------------------------------------------------------
\* Claims about the rules of single registers (SpecValidate)

\* the latest entry of a register's history holds a value
HoldsValue(name) ==
    Len(history[name]) > 0 /\ Last(history[name]).value # Nil

\* the check of a float32 candidate for the register was made
Checked(name) == vcall.name = name /\ vcall.value # Nil /\ vcall.value.t = "float32"

\* C36: an outside_air_temp candidate inside -58..122 is rejected exactly when
\* the latest entry of the register is less than 8 minutes old and holds a
\* value more than 27F away from the candidate, for entries the pollers
\* appended and for entries restored from the snapshot alike
C36_AirTempRateCheck ==
    (/\ Checked("outside_air_temp")
     /\ vcall.value.v >= -58
     /\ vcall.value.v <= 122)
        => (vcall.err # "" <=>
               /\ HoldsValue("outside_air_temp")
               /\ now - Last(history["outside_air_temp"]).ts < 8
               /\ Abs(vcall.value.v - Last(history["outside_air_temp"]).value.v) > 27)

\* C37: hp_output_kw 0 is accepted, a negative value and a value above 15 are
\* rejected; a value in between is rejected exactly when the latest
\* hp_input_kw entry holds a value that is below 100 or below an eighth of
\* the output
C37_OutputKwCheck ==
    Checked("hp_output_kw") =>
        LET out == vcall.value.v IN
        /\ out = 0 => vcall.err = ""
        /\ (out < 0 \/ out > 15) => vcall.err # ""
        /\ (out > 0 /\ out <= 15) =>
               (vcall.err # "" <=>
                   /\ HoldsValue("hp_input_kw")
                   /\ \/ Last(history["hp_input_kw"]).value.v < 100
                      \/ out > 8 * Last(history["hp_input_kw"]).value.v)

----------------------------------------------------------------------------
\* The pump controller: one caller of SetDutyCycle, Run, the clock

InitPump ==
    /\ HistInit({"hot_water_min_temp"}, 0) /\ CfgInit(NoPollGroups) /\ ClientInit
    /\ CopyInit /\ BusInit
    /\ \E m \in StartMinutes : NewActuator(m)

NextPump ==
    \/ PumpAdvance
    \/ PumpCancel
    \/ PumpRunStart
    \/ PumpRunDone
    \/ PumpRunUpdate
    \/ PumpRunTick
    \/ \E p \in DutyInputs : SetDutyCycle(p)
    \/ SetDutyCycleDrain
    \/ SetDutyCycleResend

SpecPump == InitPump /\ [][NextPump]_vars

----------------------------------------------------------------------------
\* Claims about the pump duty-cycle controller (SpecPump)

\* C38: the actuator is switched OFF no earlier than 5 minutes after it was
\* switched ON and switched ON no earlier than 2 minutes after it was
\* switched OFF, and it is called only with a state other than the current one
C38_MinOnOffRespected ==
    /\ act.n > 0 => act.on # act.was
    /\ (onAt # -1 /\ offAt >= onAt) => offAt - onAt >= Minutes(5)
    /\ (offAt # -1 /\ onAt >= offAt) => onAt - offAt >= Minutes(2)

\* C38 witness: the pump was switched ON, OFF, and ON again as soon as the
\* 2 minutes had passed
C38_Witness ==
    /\ currentOn
    /\ act = [n |-> 1, on |-> TRUE, was |-> FALSE]
    /\ offAt # -1
    /\ onAt = offAt + Minutes(2)

\* C39: when Run has returned on cancellation the pump is OFF: the state last
\* commanded to the actuator, if any, is off
C39_OffWhenRunReturns ==
    ppc = "returned" => (~currentOn /\ (act.n = 0 \/ ~act.on))

\* C40: SetDutyCycle never waits for ever (it is not in its default case
\* before an empty channel that nobody else sends on), and once it has
\* returned and the channel is empty, the running loop holds the duty cycle
\* passed last
C40_SetDutyCycleNeverBlocks ==
    /\ ~(spc = "drain" /\ updateCh = <<>>)
    /\ (spc = "idle" /\ updateCh = <<>> /\ lastSet # -1 /\ ppc = "running")
           => percent = lastSet
====
